---- MODULE Spec2Model ----
(***************************************************************************)
(* State-machine model of the Mobana React Native SDK coordinator          *)
(* (src/src/Mobana.ts), its persistence layer (src/src/storage.ts) and the *)
(* remote client (api.ts).                                                 *)
(*                                                                         *)
(* Every call of the public API runs as a task.  A task is suspended at    *)
(* one `await`; its pc names the awaited operation.  One action of the     *)
(* model is the completion of one awaited operation together with the      *)
(* synchronous code that follows it up to the next await.  The effect of   *)
(* a durable-store operation takes place when it completes; completions    *)
(* of different tasks happen in any order.                                 *)
(***************************************************************************)
EXTENDS Integers, Sequences, FiniteSets, TLC

\* ------------------------------------------------------------------ bounds
MaxTasks == 3        \* number of API calls (tasks) in one behaviour
MaxUUID == 2         \* number of generateUUID() calls in one behaviour
MaxRestarts == 1     \* number of process restarts in one behaviour
MaxQueue == 2        \* events in the durable queue where storage.ts is called directly
MaxClock == 3        \* time units that pass during one remote operation

Tasks == 1..MaxTasks

\* ------------------------------------------------------------------ values
NoId == 0
NoValue == -1                 \* `value` undefined
NoSession == "none"           \* `flowSessionId` undefined
NoConfidence == -1            \* response without `confidence`

NoAttribution == [present |-> FALSE, utm_source |-> "", confidence |-> 0]

\* MobanaSDK.config = null
NoConfig == [present |-> FALSE, enabled |-> FALSE, autoAttribute |-> FALSE]

\* AttributionResult values
NoResult == [status |-> "none", attribution |-> NoAttribution, error |-> "", httpStatus |-> 0]
MatchedResult(a) == [status |-> "matched", attribution |-> a, error |-> "", httpStatus |-> 0]
NoMatchResult == [status |-> "no_match", attribution |-> NoAttribution, error |-> "", httpStatus |-> 0]
ErrorResult(type, http) == [status |-> "error", attribution |-> NoAttribution, error |-> type, httpStatus |-> http]

Definitive(r) == r.status \in {"matched", "no_match"}
TransportError(r) == r.status = "error" /\ r.error \in {"network", "timeout", "server", "unknown"}

\* the durable attribution record (CachedAttributionResult), absent or present
NoRecord == [present |-> FALSE, matched |-> FALSE, attribution |-> NoAttribution, checkedAt |-> 0]

NoEvent == [installId |-> NoId, name |-> "", value |-> NoValue, timestamp |-> 0, flowSessionId |-> NoSession]

\* Outcomes of the POST /find transport: what fetch() does and, for a 2xx
\* answer, the JSON body.
FindResponses ==
  { [kind |-> "network", http |-> 0,   matched |-> "missing", attribution |-> NoAttribution, confidence |-> NoConfidence],
    [kind |-> "timeout", http |-> 0,   matched |-> "missing", attribution |-> NoAttribution, confidence |-> NoConfidence],
    [kind |-> "server",  http |-> 500, matched |-> "missing", attribution |-> NoAttribution, confidence |-> NoConfidence],
    [kind |-> "badjson", http |-> 200, matched |-> "missing", attribution |-> NoAttribution, confidence |-> NoConfidence],
    [kind |-> "data",    http |-> 200, matched |-> "missing", attribution |-> NoAttribution, confidence |-> NoConfidence],
    [kind |-> "data",    http |-> 200, matched |-> "false",   attribution |-> NoAttribution, confidence |-> NoConfidence],
    [kind |-> "data",    http |-> 200, matched |-> "true",    attribution |-> NoAttribution, confidence |-> NoConfidence],
    [kind |-> "data",    http |-> 200, matched |-> "true",
       attribution |-> [present |-> TRUE, utm_source |-> "google", confidence |-> 0], confidence |-> NoConfidence],
    [kind |-> "data",    http |-> 200, matched |-> "true",
       attribution |-> [present |-> TRUE, utm_source |-> "google", confidence |-> 0], confidence |-> 75] }

\* init(config) inputs: are appId and appKey non-empty, config.enabled
\* ("unset" | "true" | "false") and config.autoAttribute
InitConfigs ==
  [appId : BOOLEAN, appKey : BOOLEAN, enabled : {"unset", "true", "false"}, autoAttribute : BOOLEAN]

\* trackConversion(name, value, flowSessionId) inputs
ConversionInputs ==
  { [name |-> "signup",   value |-> NoValue, flowSessionId |-> NoSession],
    [name |-> "purchase", value |-> 49,      flowSessionId |-> "s1"] }

\* startFlow(slug) inputs, and the FlowResult values
Slugs == {"onboarding", "paywall"}
\* types.ts FlowConfig / CachedFlow (css and js travel with html and are left
\* out); cachedAt is NoValue on a FlowConfig that was not read from the cache
NoFlowConfig == [versionId |-> 0, html |-> "", cachedAt |-> NoValue]
FlowConfig(versionId, html) == [versionId |-> versionId, html |-> html, cachedAt |-> NoValue]
NoFlowResult == [completed |-> FALSE, dismissed |-> FALSE, error |-> "none"]
FlowError(error) == [completed |-> FALSE, dismissed |-> TRUE, error |-> error]
\* what the provider passes to `resolve` when the user leaves the flow
FlowOutcomes ==
  { [completed |-> TRUE,  dismissed |-> FALSE, error |-> ""],
    [completed |-> FALSE, dismissed |-> TRUE,  error |-> ""] }
\* api.ts fetchFlow: null on a failed request, else the FlowFetchResponse
\* (versionId 0 and html "": the field is absent)
FlowResponses ==
  { [isNull |-> TRUE,  error |-> "",          cached |-> FALSE, versionId |-> 0, html |-> ""],
    [isNull |-> FALSE, error |-> "NOT_FOUND", cached |-> FALSE, versionId |-> 0, html |-> ""],
    [isNull |-> FALSE, error |-> "PLAN_REQUIRED", cached |-> FALSE, versionId |-> 0, html |-> ""],
    [isNull |-> FALSE, error |-> "",          cached |-> TRUE,  versionId |-> 1, html |-> ""],
    [isNull |-> FALSE, error |-> "",          cached |-> FALSE, versionId |-> 2, html |-> "<v2>"],
    [isNull |-> FALSE, error |-> "",          cached |-> FALSE, versionId |-> 2, html |-> ""],
    [isNull |-> FALSE, error |-> "",          cached |-> FALSE, versionId |-> 0, html |-> ""] }

\* deviceInfo.platform of the device the model runs on; the android path has
\* the additional await of getInstallReferrer()
Platform == "android"

\* storage.ts: the AsyncStorage keys, as a prefix and the rest of the name
FLOW_CACHE_PREFIX == "@mobana:flow:"
FlowKey(slug) == [prefix |-> FLOW_CACHE_PREFIX, rest |-> slug]
INSTALL_ID == [prefix |-> "@mobana:", rest |-> "install_id"]
ATTRIBUTION == [prefix |-> "@mobana:", rest |-> "attribution"]
CONVERSION_QUEUE == [prefix |-> "@mobana:", rest |-> "conversion_queue"]
LOCAL_DATA == [prefix |-> "@mobana:", rest |-> "local_data"]
\* a key the application itself keeps in AsyncStorage
AppKey == [prefix |-> "app:", rest |-> "theme"]

\* as StartsWith, every key taken to start with the prefix
StartsWith_Any(key, prefix) == TRUE

\* key.startsWith(prefix)
StartsWith(key, prefix) == key.prefix = prefix

\* types.ts GetAttributionOptions.timeout: the option is absent
NoTimeout == 0
\* Mobana.ts DEFAULT_TIMEOUT (30), 10000 ms, in the time unit of Timeouts
DEFAULT_TIMEOUT == 2

\* a task slot not yet used by any call
FreeTask ==
  [kind |-> "free", pc |-> "free", ctx |-> "", installId |-> NoId, ev |-> NoEvent,
   q |-> <<>>, results |-> <<>>, i |-> 0, qq |-> <<>>,
   result |-> NoResult, fres |-> NoResult, fdone |-> FALSE, waitOn |-> 0,
   issued |-> FALSE, initResolved |-> FALSE, respMatched |-> "", allKeys |-> {},
   slug |-> "", cached |-> FALSE, cachedFlow |-> NoFlowConfig, flowConfig |-> NoFlowConfig,
   flow |-> NoFlowResult,
   \* observations about the call, not program state
   member |-> FALSE, late |-> NoResult, afterError |-> FALSE, q0 |-> <<>>, qEnd |-> <<>>,
   sent |-> "none", response |-> "none", responseError |-> "", mounted |-> FALSE, handed |-> NoFlowConfig, flows0 |-> <<>>, preReset |-> FALSE, postReset |-> FALSE, gotStale |-> FALSE,
   cfgEnabled |-> "", callNo |-> 0, offInFlight |-> FALSE,
   answer |-> [kind |-> "none", http |-> 0, matched |-> ""],
   \* options: the timeout option of a getAttribution call; timeout: the
   \* timeout fetchAttribution passes to its /find request
   options |-> NoTimeout, timeout |-> NoTimeout]

VARIABLES
  config,                   \* MobanaSDK.config
  isConfigured,             \* MobanaSDK.isConfigured
  attributionPromise,       \* MobanaSDK.attributionPromise: 0 (null) or the task whose fetchAttribution backs it
  cachedAttributionResult,  \* MobanaSDK.cachedAttributionResult (cachedAttribution is its .attribution)
  attributionChecked,       \* MobanaSDK.attributionChecked
  store,                    \* the durable key-value store (AsyncStorage keys of storage.ts)
  tasks,                    \* the API calls in progress and finished
  findCount,                \* POST /find requests issued by the latest step
  convSent,                 \* POST /conversion requests issued by the latest step
  delivered,                \* conversion events the server has accepted
  resent,                   \* events sent again after the server had accepted them
  uuidNext,                 \* generateUUID(): the next fresh identifier
  now,                      \* Date.now()
  faulty,                   \* whether durable-store operations may fail in this behaviour
  epoch,                    \* number of process restarts so far
  scenario,                 \* how the application uses the SDK in this behaviour, see Scenarios
  firstDefinitive,          \* observation: first definitive result a getAttribution() returned since reset
  clean,                    \* observation: no setEnabled(false)/reset/restart/re-init happened
  resetSeen,                \* observation: reset() was called
  serverAnswer,             \* observation: definitive result of the last fetchAttribution that got a server answer
  answerAtRestart,          \* observation: serverAnswer at the last restart
  lastOutcome,              \* observation: result of the getAttribution() that ended last, no call since
  lastFlush,                \* observation: the flushConversionQueue that ended last
  queued,                   \* observation: events a trackConversion wrote to the durable queue, since reset
  net,                      \* the remote operation in flight, see NoRequest
  ret,                      \* observation: the storage.ts function called last, what it returned,
                            \* whether its store operations succeeded and the store it started from
  optedOut,                 \* observation: the enabled flag was last set by setEnabled(false)
  explicit,                 \* observation: the application has called getAttribution() since the last init
  stale                     \* observation: the in-memory cache (.mem) / the durable record (.rec) was
                            \* written by a call whose /find request was in flight when reset() was called

vars == <<config, isConfigured, attributionPromise, cachedAttributionResult, attributionChecked,
          store, tasks, findCount, convSent, delivered, resent, uuidNext, now, faulty, epoch, scenario,
          firstDefinitive, clean, resetSeen, serverAnswer, answerAtRestart,
          lastOutcome, lastFlush, queued, net, ret, optedOut, explicit, stale>>

\* "attribution": attribution calls made concurrently; "awaited": the
\* application awaits every call before it makes the next one; "conversion":
\* conversions tracked and flushed concurrently.  The observation variables
\* are recorded in the scenario whose properties read them.
\* "identity": as "attribution", on a store that never fails, with a second
\* generateUUID() value available.
\* "flows": as "awaited", with flows started.
\* "storage": the functions of storage.ts called directly, one at a time.
\* "transport": one remote operation of api.ts at a time, with its timer.
\* "disabling": attribution calls and setEnabled interleaved, no reset.
\* "presenting": flows started without awaiting the flow started before.
\* "resetting": conversions and reset() interleaved; a reset() call records
\* the install id that is stored when it is made.
\* "timeouts": getAttribution called with and without a timeout option; the
\* timeout of each /find request is recorded.
Scenarios == {"attribution", "awaited", "conversion", "identity", "flows", "storage", "transport",
              "disabling", "presenting", "resetting", "timeouts"}
seq == scenario \in {"awaited", "flows"}

\* The part of the state the synchronous code segments read and write, at
\* the start of a step (no request issued by it yet).
Cur ==
  [config |-> config, isConfigured |-> isConfigured, attributionPromise |-> attributionPromise,
   cachedAttributionResult |-> cachedAttributionResult, attributionChecked |-> attributionChecked,
   store |-> store, tasks |-> tasks, findCount |-> 0, convSent |-> 0,
   delivered |-> delivered, resent |-> resent, uuidNext |-> uuidNext, now |-> now,
   firstDefinitive |-> firstDefinitive, clean |-> clean, resetSeen |-> resetSeen,
   serverAnswer |-> serverAnswer, lastOutcome |-> lastOutcome, lastFlush |-> lastFlush,
   queued |-> queued, ret |-> ret, optedOut |-> optedOut, explicit |-> explicit, stale |-> stale, scenario |-> scenario]

Apply(S) ==
  /\ config' = S.config
  /\ isConfigured' = S.isConfigured
  /\ attributionPromise' = S.attributionPromise
  /\ cachedAttributionResult' = S.cachedAttributionResult
  /\ attributionChecked' = S.attributionChecked
  /\ store' = S.store
  /\ tasks' = S.tasks
  /\ findCount' = S.findCount
  /\ convSent' = S.convSent
  /\ delivered' = S.delivered
  /\ resent' = S.resent
  /\ uuidNext' = S.uuidNext
  /\ now' = S.now
  /\ firstDefinitive' = S.firstDefinitive
  /\ clean' = S.clean
  /\ resetSeen' = S.resetSeen
  /\ serverAnswer' = S.serverAnswer
  /\ lastOutcome' = S.lastOutcome
  /\ lastFlush' = S.lastFlush
  /\ queued' = S.queued
  /\ explicit' = S.explicit
  /\ ret' = S.ret
  /\ optedOut' = S.optedOut
  /\ stale' = S.stale

\* outcomes of one durable-store operation: TRUE = done, FALSE = rejected
StoreOutcomes == IF faulty THEN {TRUE, FALSE} ELSE {TRUE}

At(t, label) == tasks[t].pc = label
Quiescent == \A t \in Tasks : tasks[t].pc \in {"free", "done", "killed", "rejected"}
FreeSlots == {t \in Tasks : tasks[t].pc = "free"}
\* the slot a new call takes
NextSlot == CHOOSE t \in FreeSlots : \A u \in FreeSlots : t <= u

\* ------------------------------------------------------- pure functions

\* api.ts requestWithError: the transport outcome as a RequestResult
requestWithError(resp) ==
  CASE resp.kind = "data"    -> [hasData |-> TRUE,  errorType |-> "",        http |-> 0]
    [] resp.kind = "server"  -> [hasData |-> FALSE, errorType |-> "server",  http |-> resp.http]
    [] resp.kind = "timeout" -> [hasData |-> FALSE, errorType |-> "timeout", http |-> 0]
    [] OTHER                 -> [hasData |-> FALSE, errorType |-> "network", http |-> 0]

\* storage.ts setCachedResult: the record it serialises
CachedRecord(matched, attribution, time) ==
  [present |-> TRUE, matched |-> matched, attribution |-> attribution, checkedAt |-> time]

\* Mobana.ts fetchAttribution, classification of the /find outcome: the
\* result it will return and whether it writes the durable record first
FindOutcome_WritesMalformed(resp) ==
  IF resp.kind = "data"
    THEN [write |-> TRUE, matched |-> FALSE, result |-> NoMatchResult]
    ELSE [write |-> FALSE, matched |-> FALSE, result |-> ErrorResult("network", 0)]
FindOutcome(resp) ==
  LET rr == requestWithError(resp) IN
  IF ~rr.hasData
    THEN [write |-> FALSE, matched |-> FALSE,
          result |-> ErrorResult(IF rr.errorType = "" THEN "unknown" ELSE rr.errorType, rr.http)]
  ELSE IF resp.matched \in {"true", "false"}
    THEN IF resp.matched = "true" /\ resp.attribution.present
           THEN [write |-> TRUE, matched |-> TRUE,
                 result |-> MatchedResult([resp.attribution EXCEPT
                              !.confidence = IF resp.confidence = NoConfidence THEN 0 ELSE resp.confidence])]
           ELSE [write |-> TRUE, matched |-> FALSE, result |-> NoMatchResult]
  ELSE [write |-> FALSE, matched |-> FALSE, result |-> ErrorResult("unknown", 0)]

\* Mobana.ts getAttribution, translation of the durable record to a result
CachedToResult_NoMatch(cached) == NoMatchResult
CachedToResult(cached) ==
  IF cached.matched /\ cached.attribution.present
    THEN MatchedResult(cached.attribution)
    ELSE NoMatchResult

\* Mobana.ts flushConversionQueue: queue.filter((_, i) => !results[i])
Failed_All(queue, results) == queue
RECURSIVE Failed(_, _)
Failed(queue, results) ==
  IF queue = <<>> THEN <<>>
  ELSE IF Head(results) THEN Failed(Tail(queue), Tail(results))
  ELSE <<Head(queue)>> \o Failed(Tail(queue), Tail(results))

\* storage.ts queueConversion: queue.push(event)
Push_Front(queue, event) == <<event>> \o queue
Push(queue, event) == Append(queue, event)

Enabled(S) == S.config.present /\ S.config.enabled

\* pcs at which a task is inside getAttribution()
InGetAttribution(S, u) ==
  \/ S.tasks[u].pc \in {"getCachedResult", "sharedPromise", "getInstallReferrer", "findAttribution", "setCachedResult"}
  \/ S.tasks[u].pc \in {"getInstallId_getItem", "getInstallId_setItem"} /\ S.tasks[u].ctx = "fa"

\* ------------------------------------------- synchronous code segments
\* Each maps the state S to the state at the next await of task t.

\* trackConversion -> sendConversion -> trackConversionApi: request issued
sendConversion_issue(S, t) ==
  [S EXCEPT !.tasks[t].pc = "sendConversion",
            !.convSent = @ + 1,
            !.resent = @ \cup (IF S.tasks[t].ev \in S.delivered THEN {S.tasks[t].ev} ELSE {})]

\* the getAttribution() called by task t returns r to its caller
getAttribution_return(S, t, r) ==
  LET S1 == [S EXCEPT !.firstDefinitive =
                 IF S.scenario = "attribution" /\ Definitive(r) /\ @ = NoResult THEN r ELSE @]
  IN IF S.tasks[t].kind = "tc"
       THEN sendConversion_issue(S1, t)
     ELSE IF S.tasks[t].kind = "sf"
       THEN [S1 EXCEPT !.tasks[t].pc = "getCachedFlow"]
       ELSE [S1 EXCEPT !.tasks[t].pc = "done", !.tasks[t].result = r,
                       !.lastOutcome = IF (S.scenario = "awaited") THEN r ELSE @]

\* fetchAttribution returns r; the creator's continuation (Mobana.ts 253-264)
fetchAttribution_return_CachesErrors(S, t, r) ==
  getAttribution_return([S EXCEPT !.tasks[t].fres = r,
                                  !.tasks[t].fdone = TRUE,
                                  !.attributionPromise = 0,
                                  !.attributionChecked = TRUE,
                                  !.cachedAttributionResult = r], t, r)
fetchAttribution_return(S, t, r) ==
  LET S1 == [S EXCEPT !.tasks[t].fres = r,
                      !.tasks[t].fdone = TRUE,
                      !.attributionPromise = 0,
                      !.attributionChecked = IF r.status # "error" THEN TRUE ELSE @,
                      !.cachedAttributionResult = IF r.status # "error" THEN r ELSE @,
                      !.stale.mem = IF r.status # "error" THEN S.tasks[t].preReset ELSE @]
  IN getAttribution_return(S1, t, r)

\* fetchAttribution: the enabled re-check and the /find request (683-698)
fetchAttribution_request_NoRecheck(S, t) ==
  [S EXCEPT !.tasks[t].pc = "findAttribution", !.tasks[t].issued = TRUE, !.findCount = @ + 1]
fetchAttribution_request(S, t) ==
  IF ~Enabled(S)
    THEN fetchAttribution_return(S, t, NoMatchResult)
    ELSE [S EXCEPT !.tasks[t].pc = "findAttribution",
                   !.tasks[t].issued = TRUE,
                   !.findCount = @ + 1]

\* fetchAttribution after `await getInstallId()` (666-681)
fetchAttribution_afterInstallId(S, t) ==
  IF Platform = "android"
    THEN [S EXCEPT !.tasks[t].pc = "getInstallReferrer"]
    ELSE fetchAttribution_request(S, t)

\* storage.ts getInstallId up to its first await
getInstallId_start(S, t, ctx) ==
  [S EXCEPT !.tasks[t].pc = "getInstallId_getItem", !.tasks[t].ctx = ctx]

\* getAttribution creates the shared promise; fetchAttribution up to its first await
fetchAttribution_start(S, t) ==
  getInstallId_start(
    [S EXCEPT !.attributionPromise = t,
              !.tasks[t].timeout = IF S.scenario # "timeouts" THEN NoTimeout
                                   ELSE IF S.tasks[t].options = NoTimeout THEN DEFAULT_TIMEOUT
                                   ELSE S.tasks[t].options], t, "fa")

\* getAttribution after `await getCachedResult()` (229-252)
getAttribution_afterCached(S, t, cached) ==
  IF ~Enabled(S)
    THEN getAttribution_return(S, t, ErrorResult("sdk_disabled", 0))
  ELSE IF cached.present
    THEN LET r == CachedToResult(cached) IN
         getAttribution_return([S EXCEPT !.attributionChecked = TRUE,
                                         !.cachedAttributionResult = r,
                                         !.stale.mem = S.stale.rec,
                                         !.tasks[t].gotStale = S.stale.rec /\ S.tasks[t].postReset], t, r)
  ELSE IF S.attributionPromise # 0
    THEN [S EXCEPT !.tasks[t].pc = "sharedPromise", !.tasks[t].waitOn = S.attributionPromise]
  ELSE fetchAttribution_start(S, t)

\* getAttribution up to its first await (209-227)
getAttribution_call(S, t) ==
  LET others == Tasks \ {t}
      members == {u \in others : S.tasks[u].member}
      joins == /\ S.tasks[t].kind \in {"ga", "init"}
               /\ S.clean /\ S.isConfigured /\ Enabled(S)
               /\ ~S.attributionChecked /\ ~S.store.attribution.present
               /\ \A u \in members : S.tasks[u].pc # "done"
               /\ members = {} => (S.attributionPromise = 0 /\ \A u \in others : ~InGetAttribution(S, u))
      S1 == [S EXCEPT !.tasks[t].member = joins,
                      !.tasks[t].late = IF S.tasks[t].kind = "ga" /\ S.isConfigured /\ Enabled(S)
                                          THEN S.firstDefinitive ELSE NoResult,
                      !.tasks[t].afterError = S.tasks[t].kind \in {"ga", "init"} /\ S.isConfigured
                                              /\ Enabled(S) /\ TransportError(S.lastOutcome),
                      !.lastOutcome = NoResult]
  IN IF ~S.isConfigured \/ ~S.config.present
       THEN getAttribution_return(S1, t, ErrorResult("sdk_not_configured", 0))
     ELSE IF ~S.config.enabled
       THEN getAttribution_return(S1, t, ErrorResult("sdk_disabled", 0))
     ELSE IF S.attributionChecked
       THEN getAttribution_return([S1 EXCEPT !.tasks[t].gotStale = S.stale.mem /\ S.tasks[t].postReset],
                                  t, S.cachedAttributionResult)
     ELSE [S1 EXCEPT !.tasks[t].pc = "getCachedResult"]

\* as init_afterFlush, with the background getAttribution() awaited
init_afterFlush_Awaits(S, t) ==
  IF S.config.autoAttribute
    THEN getAttribution_call(S, t)
    ELSE [S EXCEPT !.tasks[t].pc = "done", !.tasks[t].initResolved = TRUE]

\* init after `await this.flushConversionQueue()` (140-146)
init_afterFlush(S, t) ==
  LET S1 == [S EXCEPT !.tasks[t].initResolved = TRUE] IN
  IF S.config.autoAttribute
    THEN getAttribution_call(S1, t)
    ELSE [S1 EXCEPT !.tasks[t].pc = "done"]

\* flushConversionQueue returns to its caller; a detached flush (started by
\* setEnabled(true)) that found the queue empty leaves nothing behind and its
\* slot is free again
flushConversionQueue_return(S, t) ==
  LET S1 == [S EXCEPT !.lastFlush =
                 IF (S.scenario = "awaited") THEN [q0 |-> S.tasks[t].q0, results |-> S.tasks[t].results,
                                after |-> S.store.queue, ran |-> TRUE]
                          ELSE @]
  IN IF S.tasks[t].kind = "init"
       THEN init_afterFlush(S1, t)
     ELSE IF S.tasks[t].q = <<>>
       THEN [S1 EXCEPT !.tasks[t] = FreeTask]
     ELSE [S1 EXCEPT !.tasks[t].pc = "done"]

\* flushConversionQueue up to its first await (763-768)
flushConversionQueue_call(S, t) ==
  IF ~Enabled(S)
    THEN IF S.tasks[t].kind = "init" THEN init_afterFlush(S, t) ELSE [S EXCEPT !.tasks[t] = FreeTask]
    ELSE [S EXCEPT !.tasks[t].pc = "getConversionQueue",
                   !.tasks[t].q0 = IF (S.scenario = "awaited") THEN S.store.queue ELSE @]

\* flushConversionQueue: `for (const event of failed) await queueConversion(event)` (785-788)
flushConversionQueue_requeue(S, t, i) ==
  IF i > Len(Failed(S.tasks[t].q, S.tasks[t].results))
    THEN flushConversionQueue_return(S, t)
    ELSE [S EXCEPT !.tasks[t].i = i, !.tasks[t].pc = "queueConversion_get"]

\* the event the queueConversion of task t is appending
QueuedEvent(S, t) ==
  IF S.tasks[t].kind = "tc"
    THEN S.tasks[t].ev
    ELSE Failed(S.tasks[t].q, S.tasks[t].results)[S.tasks[t].i]

\* queueConversion returns to its caller
queueConversion_return(S, t) ==
  IF S.tasks[t].kind = "tc"
    THEN [S EXCEPT !.tasks[t].pc = "done",
                   !.tasks[t].qEnd = IF (S.scenario = "awaited") THEN S.store.queue ELSE @]
    ELSE flushConversionQueue_requeue(S, t, S.tasks[t].i + 1)

\* trackConversion after `await getInstallId()` (309-320)
trackConversion_afterInstallId(S, t, id) ==
  getAttribution_call(
    [S EXCEPT !.tasks[t].ev = [@ EXCEPT !.installId = id, !.timestamp = S.now],
              !.now = @ + 1], t)

\* getInstallId returns id to its caller
getInstallId_return(S, t, id) ==
  LET S1 == [S EXCEPT !.tasks[t].installId = id] IN
  CASE S.tasks[t].ctx = "init" -> flushConversionQueue_call(S1, t)
    [] S.tasks[t].ctx = "tc"   -> trackConversion_afterInstallId(S1, t, id)
    [] S.tasks[t].ctx = "sf"   -> getAttribution_call(S1, t)
    [] S.tasks[t].ctx = "pf"   -> [S1 EXCEPT !.tasks[t].pc = "getCachedFlow"]
    [] OTHER                   -> fetchAttribution_afterInstallId(S1, t)

\* ---------------------------------------------------------------- Init
\* the instance right after `new MobanaSDK()`, over a given durable store
\* (keys: the flow-cache, local-data and application keys that are present;
\* queueJson: what the text at CONVERSION_QUEUE is, the array `queue` unless
\* the stored value is corrupt; flows: the CachedFlow stored at each flow key
\* that is present)
\* (localData: the object stored at LOCAL_DATA, "" where it has no such key;
\* malformed: the keys whose stored text is not JSON)
NoFlows == [slug \in Slugs |-> NoFlowConfig]
DataKeys == {"name", "plan"}
NoLocalData == [key \in DataKeys |-> ""]
FreshStore ==
  [installId |-> NoId, attribution |-> NoRecord, queue |-> <<>>, queueJson |-> "array", keys |-> {},
   flows |-> NoFlows, localData |-> NoLocalData, malformed |-> {}]

\* the store a previous process left behind: an install id, the attribution
\* record of a matched install and a conversion whose send had failed
QueuedSignup == [installId |-> 1, name |-> "signup", value |-> NoValue, timestamp |-> 1, flowSessionId |-> NoSession]
QueuedPurchase == [installId |-> 1, name |-> "purchase", value |-> 49, timestamp |-> 2, flowSessionId |-> "s1"]
ReturningStore ==
  [installId |-> 1,
   attribution |-> CachedRecord(TRUE, [present |-> TRUE, utm_source |-> "google", confidence |-> 75], 0),
   queue |-> <<QueuedSignup>>,
   queueJson |-> "array",
   keys |-> {},
   flows |-> NoFlows,
   localData |-> NoLocalData,
   malformed |-> {}]
\* an install whose lookups had all failed, with two conversions left to send,
\* a cached flow, local data of the flow bridge and a key of the application
UnattributedStore ==
  [ReturningStore EXCEPT !.attribution = NoRecord, !.queue = <<QueuedSignup, QueuedPurchase>>,
                         !.keys = {FlowKey("onboarding"), LOCAL_DATA, AppKey},
                         !.flows["onboarding"] = [versionId |-> 1, html |-> "<v1>", cachedAt |-> 0],
                         !.localData["name"] = "a"]
\* a store whose texts at the attribution, flow, queue and local-data keys
\* are not JSON
MalformedStore ==
  [FreshStore EXCEPT !.installId = 1, !.queueJson = "garbage",
                     !.keys = {FlowKey("onboarding"), LOCAL_DATA, AppKey},
                     !.malformed = {ATTRIBUTION, FlowKey("onboarding"), LOCAL_DATA}]

\* api.ts: the functions that send a request, and the timeouts they are given
Timeouts == {1, 2}
\* no remote operation yet.  phase: "fetch" / "json" = the awaited promise;
\* timer: the setTimeout handle; aborted: controller.signal.aborted;
\* responded: fetch resolved with a response; lateAbort: controller.abort()
\* ran after that; isTimeout: the catch block saw an AbortError
NoRequest ==
  [op |-> "none", phase |-> "idle", timeout |-> 0, elapsed |-> 0, timer |-> "none",
   aborted |-> FALSE, responded |-> FALSE, lateAbort |-> FALSE, isTimeout |-> FALSE,
   outcome |-> "none"]

\* no storage.ts function has been called directly
NoCall == [op |-> "none", arg |-> "", value |-> <<>>, readOk |-> TRUE, writeOk |-> TRUE, before |-> <<>>]

\* a store whose CONVERSION_QUEUE text is not the JSON of an array: the JSON
\* of null or of an object, or no JSON at all
CorruptStore(json) == [ReturningStore EXCEPT !.queue = <<>>, !.queueJson = json]

InitOver(stores, usage, faults, firstUUID) ==
  /\ config = NoConfig
  /\ isConfigured = FALSE
  /\ attributionPromise = 0
  /\ cachedAttributionResult = NoResult
  /\ attributionChecked = FALSE
  /\ store \in stores
  /\ tasks = [t \in Tasks |-> FreeTask]
  /\ findCount = 0
  /\ convSent = 0
  /\ delivered = {}
  /\ resent = {}
  /\ uuidNext = firstUUID
  /\ now = 3
  /\ faulty \in faults
  /\ epoch = 0
  /\ scenario = usage
  /\ firstDefinitive = NoResult
  /\ clean = (usage = "attribution")
  /\ resetSeen = FALSE
  /\ serverAnswer = NoResult
  /\ answerAtRestart = NoResult
  /\ lastOutcome = NoResult
  /\ lastFlush = [q0 |-> <<>>, results |-> <<>>, after |-> <<>>, ran |-> FALSE]
  /\ queued = {}
  /\ explicit = FALSE
  /\ ret = NoCall
  /\ optedOut = FALSE
  /\ net = NoRequest
  /\ stale = [mem |-> FALSE, rec |-> FALSE]

\* ------------------------------------------------------------ API calls
Env == <<faulty, epoch, scenario, answerAtRestart, net>>

\* The state a new call starts from.  When the application awaits every call,
\* only the outcome of the latest call is kept for observation: a finished
\* call whose outcome is no longer looked at is of kind "past".
AtCall ==
  IF seq
    THEN [Cur EXCEPT !.tasks = [u \in Tasks |->
                                  IF tasks[u].pc = "done"
                                    THEN [FreeTask EXCEPT !.kind = "past", !.pc = "done"]
                                    ELSE tasks[u]]]
    ELSE Cur

\* a call can be made: a slot is left and, when the application awaits every
\* call, no call is in progress
CanCall == FreeSlots # {} /\ (seq => Quiescent)

\* Mobana.ts getAttribution({timeout}), up to `await getCachedResult()` (206-226)
getAttribution_options(timeout) ==
  /\ CanCall
  /\ LET t == NextSlot IN
     Apply(getAttribution_call([AtCall EXCEPT !.tasks[t] = [FreeTask EXCEPT !.kind = "ga",
                                                                           !.options = timeout]], t))
  /\ UNCHANGED Env

\* Mobana.ts init(config), up to `await getInstallId()` (107-126)
init(cfg) ==
  /\ CanCall
  /\ LET t == NextSlot
         S0 == [AtCall EXCEPT !.tasks[t] = [FreeTask EXCEPT !.kind = "init",
                                                           !.cfgEnabled = IF scenario = "flows"
                                                                            THEN cfg.enabled ELSE ""],
                           !.clean = @ /\ ~isConfigured]
     IN IF ~cfg.appId \/ ~cfg.appKey
          THEN Apply([S0 EXCEPT !.tasks[t].pc = "done"])
          ELSE Apply(getInstallId_start(
                 [S0 EXCEPT !.config = [present |-> TRUE,
                                        enabled |-> cfg.enabled # "false",
                                        autoAttribute |-> cfg.autoAttribute],
                            !.isConfigured = TRUE,
                            !.optedOut = FALSE,
                            !.explicit = FALSE], t, "init"))
  /\ UNCHANGED Env

\* Mobana.ts setEnabled(enabled) (154-169); the call on an unconfigured
\* instance only warns and is left out
setEnabled(enabled) ==
  /\ config.present
  /\ seq => Quiescent
  /\ IF enabled
       THEN /\ FreeSlots # {}
            /\ LET t == NextSlot IN
               Apply(flushConversionQueue_call(
                 [AtCall EXCEPT !.config.enabled = TRUE,
                             !.optedOut = FALSE,
                             !.tasks[t] = [FreeTask EXCEPT !.kind = "fl"],
                             !.lastOutcome = NoResult], t))
       ELSE Apply([AtCall EXCEPT !.config.enabled = FALSE, !.optedOut = (scenario = "flows"),
                                 !.clean = FALSE, !.lastOutcome = NoResult,
                                 !.tasks = [t \in Tasks |->
                                              IF scenario = "disabling" /\ tasks[t].pc = "findAttribution"
                                                THEN [@[t] EXCEPT !.offInFlight = TRUE] ELSE @[t]]])
  /\ UNCHANGED Env

\* Mobana.ts getAttribution(), called by the application
getAttribution ==
  /\ CanCall
  /\ LET t == NextSlot IN
     Apply(getAttribution_call([AtCall EXCEPT !.explicit = (scenario = "flows"),
                                              !.tasks[t] = [FreeTask EXCEPT !.kind = "ga",
                !.postReset = /\ scenario = "identity" /\ resetSeen
                              /\ \A u \in Tasks : tasks[u].kind = "reset" => tasks[u].pc = "done"]], t))
  /\ UNCHANGED Env

\* Mobana.ts trackConversion(name, value, flowSessionId), up to `await getInstallId()` (292-307)
trackConversion(in) ==
  /\ CanCall
  /\ LET t == NextSlot
         S0 == [AtCall EXCEPT !.tasks[t] = [FreeTask EXCEPT !.kind = "tc",
                    !.ev = [NoEvent EXCEPT !.name = in.name, !.value = in.value,
                                           !.flowSessionId = in.flowSessionId],
                    !.q0 = IF seq THEN store.queue ELSE @,
                    !.callNo = IF scenario = "conversion"
                                 THEN 1 + Cardinality({u \in Tasks : tasks[u].kind = "tc"}) ELSE 0],
                  !.lastOutcome = NoResult]
     IN IF ~isConfigured \/ ~config.present \/ ~config.enabled
          THEN Apply([S0 EXCEPT !.tasks[t].pc = "done"])
          ELSE Apply(getInstallId_start(S0, t, "tc"))
  /\ UNCHANGED Env

\* as startFlow_return, with every error reported as SERVER_ERROR
startFlow_return_Collapsed(S, t, result) ==
  [S EXCEPT !.tasks[t].pc = "done",
            !.tasks[t].flow = IF result.error = "" THEN result ELSE FlowError("SERVER_ERROR")]

\* startFlow returns result to its caller
startFlow_return(S, t, result) ==
  [S EXCEPT !.tasks[t].pc = "done", !.tasks[t].flow = result]

\* MobanaProvider.tsx presentFlow (160-173): setCurrentRequest(request).  The
\* provider holds one request, currentRequest: the call at "presented".  The
\* request it held before is dropped without its `resolve` being called; the
\* call that made it stays at "replaced", its promise pending.
presentFlow(S, t) ==
  [S EXCEPT !.tasks = [u \in Tasks |->
     IF u = t THEN [S.tasks[u] EXCEPT !.pc = "presented"]
     ELSE IF S.tasks[u].pc = "presented"
       THEN [S.tasks[u] EXCEPT !.pc = "replaced"]
     ELSE S.tasks[u]]]

\* presentFlowToUser (615-639), returned by startFlow without `await` from
\* inside its try block: the executor of the new promise calls
\* flowContext.presentFlow; when that throws the promise is rejected and the
\* rejection becomes startFlow's, the catch block (535-541) is not entered
presentFlowToUser(S, t, flowConfig, throws) ==
  IF throws
    THEN [S EXCEPT !.tasks[t].pc = "rejected", !.tasks[t].handed = flowConfig]
    ELSE presentFlow([S EXCEPT !.tasks[t].handed = flowConfig], t)

\* as startFlow_afterFetch, without the fallback to the cached version
startFlow_afterFetch_NoFallback(S, t, response, throws) ==
  IF response.isNull
    THEN startFlow_return(S, t, FlowError("NETWORK_ERROR"))
  ELSE IF response.error # ""
    THEN startFlow_return(S, t, FlowError(response.error))
  ELSE IF response.cached /\ S.tasks[t].cached
    THEN presentFlowToUser(S, t, S.tasks[t].cachedFlow, throws)
  ELSE IF response.versionId # 0 /\ response.html # ""
    THEN [S EXCEPT !.tasks[t].pc = "setCachedFlow",
                   !.tasks[t].flowConfig = FlowConfig(response.versionId, response.html)]
  ELSE startFlow_return(S, t, FlowError("SERVER_ERROR"))

\* startFlow after `await fetchFlow(...)` (472-516)
startFlow_afterFetch(S, t, response, throws) ==
  IF response.isNull
    THEN IF S.tasks[t].cached
           THEN presentFlowToUser(S, t, S.tasks[t].cachedFlow, throws)
           ELSE startFlow_return(S, t, FlowError("NETWORK_ERROR"))
  ELSE IF response.error # ""
    THEN startFlow_return(S, t, FlowError(response.error))
  ELSE IF response.cached /\ S.tasks[t].cached
    THEN presentFlowToUser(S, t, S.tasks[t].cachedFlow, throws)
  ELSE IF response.versionId # 0 /\ response.html # ""
    THEN [S EXCEPT !.tasks[t].pc = "setCachedFlow",
                   !.tasks[t].flowConfig = FlowConfig(response.versionId, response.html)]
  ELSE startFlow_return(S, t, FlowError("SERVER_ERROR"))

\* as startFlow, without the check of the provider
startFlow_NoMountCheck(slug, mounted) ==
  /\ CanCall
  /\ LET t == NextSlot
         S0 == [AtCall EXCEPT !.tasks[t] = [FreeTask EXCEPT !.kind = "sf", !.slug = slug,
                                                            !.mounted = mounted,
                                                            !.flows0 = <<store.keys, store.flows>>]]
     IN IF ~isConfigured \/ ~config.present \/ ~config.enabled
          THEN Apply(startFlow_return(S0, t, FlowError("SDK_NOT_CONFIGURED")))
          ELSE Apply(getInstallId_start(S0, t, "sf"))
  /\ UNCHANGED Env

\* Mobana.ts startFlow(slug), up to `await getInstallId()` (415-442); mounted:
\* whether getGlobalFlowContext() has a mounted provider
startFlow(slug, mounted) ==
  /\ CanCall
  /\ LET t == NextSlot
         S0 == [AtCall EXCEPT !.tasks[t] = [FreeTask EXCEPT !.kind = "sf", !.slug = slug,
                                                            !.mounted = mounted,
                                                            !.flows0 = <<store.keys, store.flows>>]]
     IN IF ~isConfigured \/ ~config.present
          THEN Apply(startFlow_return(S0, t, FlowError("SDK_NOT_CONFIGURED")))
        ELSE IF ~config.enabled
          THEN Apply(startFlow_return(S0, t, FlowError("SDK_NOT_CONFIGURED")))
        ELSE IF ~mounted
          THEN Apply(startFlow_return(S0, t, FlowError("PROVIDER_NOT_MOUNTED")))
        ELSE Apply(getInstallId_start(S0, t, "sf"))
  /\ UNCHANGED Env

\* Mobana.ts prefetchFlow(slug), up to `await getInstallId()` (561-572)
prefetchFlow(slug) ==
  /\ CanCall
  /\ LET t == NextSlot
         S0 == [AtCall EXCEPT !.tasks[t] = [FreeTask EXCEPT !.kind = "pf", !.slug = slug,
                                                            !.flows0 = <<store.keys, store.flows>>]]
     IN IF ~isConfigured \/ ~config.present \/ ~config.enabled
          THEN Apply([S0 EXCEPT !.tasks[t].pc = "done"])
          ELSE Apply(getInstallId_start(S0, t, "pf"))
  /\ UNCHANGED Env

\* prefetchFlow after `await fetchFlow(...)` (586-603)
prefetchFlow_afterFetch(S, t, response) ==
  IF /\ ~response.isNull /\ response.error = "" /\ ~response.cached
     /\ response.versionId # 0 /\ response.html # ""
    THEN [S EXCEPT !.tasks[t].pc = "setCachedFlow",
                   !.tasks[t].flowConfig = FlowConfig(response.versionId, response.html)]
    ELSE [S EXCEPT !.tasks[t].pc = "done"]

\* Mobana.ts reset(), up to `await clearAttribution()` (361-369)
reset ==
  /\ CanCall
  /\ LET t == NextSlot IN
     Apply([AtCall EXCEPT !.tasks = [u \in Tasks |->
                                       IF u = t
                                         THEN [FreeTask EXCEPT !.kind = "reset", !.pc = "clearAttribution",
                                                               !.installId = IF scenario = "resetting"
                                                                               THEN store.installId ELSE NoId]
                                       ELSE IF /\ scenario = "identity" /\ tasks[u].issued
                                               /\ tasks[u].pc \in {"findAttribution", "setCachedResult"}
                                         THEN [tasks[u] EXCEPT !.preReset = TRUE]
                                       ELSE tasks[u]],
                       !.cachedAttributionResult = NoResult,
                       !.attributionChecked = FALSE,
                       !.attributionPromise = 0,
                       !.firstDefinitive = NoResult,
                       !.clean = FALSE,
                       !.resetSeen = (scenario \in {"attribution", "identity"}),
                       !.stale.mem = FALSE,
                       !.lastOutcome = NoResult,
                       !.queued = {}])
  /\ UNCHANGED Env

\* The process ends and a new one constructs a fresh MobanaSDK over the
\* same durable store: every pending task is gone with the old process.
Restart ==
  /\ epoch < MaxRestarts
  /\ seq => Quiescent
  /\ epoch' = epoch + 1
  /\ findCount' = 0
  /\ convSent' = 0
  /\ answerAtRestart' = serverAnswer
  /\ config' = NoConfig
  /\ isConfigured' = FALSE
  /\ attributionPromise' = 0
  /\ cachedAttributionResult' = NoResult
  /\ attributionChecked' = FALSE
  /\ tasks' = [t \in Tasks |-> IF tasks[t].pc = "free" THEN FreeTask
                               ELSE [FreeTask EXCEPT !.kind = "killed", !.pc = "killed"]]
  /\ firstDefinitive' = NoResult
  /\ clean' = FALSE
  /\ stale' = [stale EXCEPT !.mem = FALSE]
  /\ optedOut' = FALSE
  /\ UNCHANGED <<store, delivered, resent, uuidNext, now, faulty, scenario,
                 resetSeen, serverAnswer, lastOutcome, lastFlush, queued, explicit, ret, net>>

\* ------------------------------------------- completions of awaited operations

\* storage.ts getCachedResult (38-48): the record, null (NoRecord) when there
\* is none or the read or the parse throws
getCachedResult_read(st, ok) ==
  IF ok /\ ATTRIBUTION \notin st.malformed THEN st.attribution ELSE NoRecord

\* storage.ts getCachedFlow (153-164): the CachedFlow of the slug, null
\* (NoFlowConfig) when there is none or the read or the parse throws
getCachedFlow_read(st, slug, ok) ==
  IF ok /\ FlowKey(slug) \in st.keys /\ FlowKey(slug) \notin st.malformed
    THEN st.flows[slug] ELSE NoFlowConfig

\* as getAllLocalData_read, without the catch
getAllLocalData_read_Unsafe(st, ok) == st.localData

\* storage.ts getAllLocalData (216-226): the stored object, {} (NoLocalData)
\* when there is none or the read or the parse throws
getAllLocalData_read(st, ok) ==
  IF ok /\ LOCAL_DATA \in st.keys /\ LOCAL_DATA \notin st.malformed
    THEN st.localData ELSE NoLocalData

\* storage.ts getConversionQueue (96-106): what it returns, JSON.parse of the
\* stored text cast to ConversionEvent[] without a check; [] when the read or
\* the parse throws
getConversionQueue_parse(st, ok) ==
  IF ~ok \/ st.queueJson = "garbage"
    THEN [isArray |-> TRUE, value |-> <<>>]
  ELSE IF st.queueJson = "array"
    THEN [isArray |-> TRUE, value |-> st.queue]
  ELSE [isArray |-> FALSE, value |-> <<>>]

\* storage.ts getInstallId: AsyncStorage.getItem(INSTALL_ID) completes (19-32)
getInstallId_getItem(t) ==
  /\ At(t, "getInstallId_getItem")
  /\ \E ok \in StoreOutcomes :
       IF ok /\ store.installId # NoId
         THEN Apply(getInstallId_return(Cur, t, store.installId))
       ELSE /\ uuidNext <= MaxUUID
            /\ LET S1 == [Cur EXCEPT !.uuidNext = @ + 1, !.tasks[t].installId = uuidNext] IN
               IF ok THEN Apply([S1 EXCEPT !.tasks[t].pc = "getInstallId_setItem"])
                     ELSE Apply(getInstallId_return(S1, t, uuidNext))
  /\ UNCHANGED Env

\* storage.ts getInstallId: AsyncStorage.setItem(INSTALL_ID, installId) completes (24-32)
getInstallId_setItem(t) ==
  /\ At(t, "getInstallId_setItem")
  /\ \E ok \in StoreOutcomes :
       IF ok
         THEN Apply(getInstallId_return([Cur EXCEPT !.store.installId = tasks[t].installId],
                                        t, tasks[t].installId))
         ELSE /\ uuidNext <= MaxUUID
              /\ Apply(getInstallId_return([Cur EXCEPT !.uuidNext = @ + 1], t, uuidNext))
  /\ UNCHANGED Env

\* storage.ts getCachedResult completes (38-48), getAttribution continues
getCachedResult(t) ==
  /\ At(t, "getCachedResult")
  /\ \E ok \in StoreOutcomes :
       Apply(getAttribution_afterCached(Cur, t, getCachedResult_read(store, ok)))
  /\ UNCHANGED Env

\* the promise another caller created resolves for a caller that was handed it (248-250)
sharedPromise(t) ==
  /\ At(t, "sharedPromise")
  /\ tasks[tasks[t].waitOn].fdone
  /\ Apply(getAttribution_return(Cur, t, tasks[tasks[t].waitOn].fres))
  /\ UNCHANGED Env

\* NativeMobana.ts getInstallReferrer completes (it never rejects)
getInstallReferrer(t) ==
  /\ At(t, "getInstallReferrer")
  /\ Apply(fetchAttribution_request(Cur, t))
  /\ UNCHANGED Env

\* as findAttribution, an error outcome leaving attributionPromise set
findAttribution_KeepsMarker(t) ==
  /\ At(t, "findAttribution")
  /\ \E resp \in FindResponses :
       LET o == FindOutcome(resp) IN
       IF o.write
         THEN Apply([Cur EXCEPT !.tasks[t].pc = "setCachedResult", !.tasks[t].fres = o.result,
                                !.tasks[t].respMatched = resp.matched])
         ELSE Apply([fetchAttribution_return(Cur, t, o.result) EXCEPT !.attributionPromise = t])
  /\ UNCHANGED Env

\* api.ts findAttribution completes; fetchAttribution classifies (700-751)
findAttribution(t) ==
  /\ At(t, "findAttribution")
  /\ \E resp \in FindResponses :
       LET o == FindOutcome(resp)
           S1 == [Cur EXCEPT !.tasks[t].answer =
                     IF scenario = "awaited"
                       THEN [kind |-> resp.kind, http |-> resp.http, matched |-> resp.matched]
                       ELSE @]
       IN IF o.write
            THEN Apply([S1 EXCEPT !.tasks[t].pc = "setCachedResult", !.tasks[t].fres = o.result,
                                  !.tasks[t].respMatched = resp.matched])
            ELSE Apply(fetchAttribution_return(S1, t, o.result))
  /\ UNCHANGED Env

\* as setCachedResult, the result dropped when the coordinator is disabled
setCachedResult_WhenEnabled(t) ==
  /\ At(t, "setCachedResult")
  /\ Apply(fetchAttribution_return(Cur, t, ErrorResult("sdk_disabled", 0)))
  /\ UNCHANGED Env

\* storage.ts setCachedResult completes (53-67); fetchAttribution returns
setCachedResult(t) ==
  /\ At(t, "setCachedResult")
  /\ \E ok \in StoreOutcomes :
       LET r == tasks[t].fres
           S1 == [Cur EXCEPT !.store.attribution =
                      IF ok THEN CachedRecord(r.status = "matched", r.attribution, now) ELSE @,
                    !.store.malformed = IF ok THEN @ \ {ATTRIBUTION} ELSE @,
                    !.tasks[t].respMatched = "",
                    !.stale.rec = IF ok THEN tasks[t].preReset ELSE @,
                    !.serverAnswer = IF scenario = "attribution" THEN r ELSE @]
       IN Apply(fetchAttribution_return(S1, t, r))
  /\ UNCHANGED Env

\* the events the server accepts in this step, as recorded in `delivered`
Accepted(events) == IF scenario = "conversion" THEN events ELSE {}

\* trackConversion: sendConversion completes (323-332)
sendConversion(t) ==
  /\ At(t, "sendConversion")
  /\ \E success \in BOOLEAN :
       IF success
         THEN Apply([Cur EXCEPT !.delivered = @ \cup Accepted({tasks[t].ev}), !.tasks[t].pc = "done",
                                !.tasks[t].qEnd = IF seq THEN store.queue ELSE @,
                                !.tasks[t].sent = IF seq THEN "ok" ELSE @])
         ELSE Apply([Cur EXCEPT !.tasks[t].pc = "queueConversion_get",
                                !.tasks[t].sent = IF seq THEN "failed" ELSE @])
  /\ UNCHANGED Env

\* flushConversionQueue: getConversionQueue completes, all sends are issued (768-781)
getConversionQueue(t) ==
  /\ At(t, "getConversionQueue")
  /\ \E ok \in StoreOutcomes :
       LET parsed == getConversionQueue_parse(store, ok)
           queue == parsed.value IN
       IF ~parsed.isArray
         THEN Apply([Cur EXCEPT !.tasks[t].pc = "rejected"])
       ELSE IF queue = <<>>
         THEN Apply(flushConversionQueue_return(Cur, t))
         ELSE Apply([Cur EXCEPT !.tasks[t].pc = "sendAll",
                                !.tasks[t].q = queue,
                                !.convSent = @ + Len(queue),
                                !.resent = @ \cup {e \in delivered : \E k \in 1..Len(queue) : queue[k] = e}])
  /\ UNCHANGED Env

\* flushConversionQueue: Promise.all of the sends resolves, the queue is cleared next (779-784)
sendAll(t) ==
  /\ At(t, "sendAll")
  /\ \E results \in [1..Len(tasks[t].q) -> BOOLEAN] :
       Apply([Cur EXCEPT !.tasks[t].pc = "clearConversionQueue",
                         !.tasks[t].results = results,
                         !.delivered = @ \cup Accepted({tasks[t].q[k] : k \in {j \in 1..Len(tasks[t].q) : results[j]}})])
  /\ UNCHANGED Env

\* as clearConversionQueue, without removing the key
clearConversionQueue_Kept(t) ==
  /\ At(t, "clearConversionQueue")
  /\ Apply(flushConversionQueue_requeue(Cur, t, 1))
  /\ UNCHANGED Env

\* flushConversionQueue: clearConversionQueue completes (784-788, storage.ts 111-117)
clearConversionQueue(t) ==
  /\ At(t, "clearConversionQueue")
  /\ \E ok \in StoreOutcomes :
       Apply(flushConversionQueue_requeue(
               [Cur EXCEPT !.store.queue = IF ok THEN <<>> ELSE @,
                           !.store.queueJson = IF ok THEN "array" ELSE @], t, 1))
  /\ UNCHANGED Env

\* storage.ts queueConversion: getConversionQueue completes, the event is pushed (85-87)
queueConversion_get(t) ==
  /\ At(t, "queueConversion_get")
  /\ \E ok \in StoreOutcomes :
       LET parsed == getConversionQueue_parse(store, ok) IN
       IF ~parsed.isArray
         THEN Apply(queueConversion_return(Cur, t))
         ELSE Apply([Cur EXCEPT !.tasks[t].pc = "queueConversion_set",
                                !.tasks[t].qq = Push(parsed.value, QueuedEvent(Cur, t))])
  /\ UNCHANGED Env

\* storage.ts queueConversion: AsyncStorage.setItem(CONVERSION_QUEUE) completes (87-90)
queueConversion_set(t) ==
  /\ At(t, "queueConversion_set")
  /\ \E ok \in StoreOutcomes :
       Apply(queueConversion_return(
               [Cur EXCEPT !.store.queue = IF ok THEN tasks[t].qq ELSE @,
                           !.store.queueJson = IF ok THEN "array" ELSE @,
                           !.queued = IF ok /\ tasks[t].kind = "tc" /\ scenario = "conversion"
                                        THEN @ \cup {tasks[t].ev} ELSE @], t))
  /\ UNCHANGED Env

\* reset: clearAttribution completes (369, storage.ts 72-78)
reset_clearAttribution(t) ==
  /\ At(t, "clearAttribution")
  /\ \E ok \in StoreOutcomes :
       Apply([Cur EXCEPT !.store.attribution = IF ok THEN NoRecord ELSE @,
                         !.store.malformed = IF ok THEN @ \ {ATTRIBUTION} ELSE @,
                         !.stale.rec = IF ok THEN FALSE ELSE @,
                         !.store.installId = IF ok THEN NoId ELSE @,
                         !.tasks[t].pc = "reset_clearConversionQueue"])
  /\ UNCHANGED Env

\* reset: clearConversionQueue completes (370, storage.ts 111-117)
reset_clearConversionQueue(t) ==
  /\ At(t, "reset_clearConversionQueue")
  /\ \E ok \in StoreOutcomes :
       Apply([Cur EXCEPT !.store.queue = IF ok THEN <<>> ELSE @,
                         !.store.queueJson = IF ok THEN "array" ELSE @,
                         !.tasks[t].pc = "getAllKeys"])
  /\ UNCHANGED Env

\* AsyncStorage.getAllKeys()
getAllKeys(S) ==
  S.store.keys
    \cup (IF S.store.installId # NoId THEN {INSTALL_ID} ELSE {})
    \cup (IF S.store.attribution.present \/ ATTRIBUTION \in S.store.malformed THEN {ATTRIBUTION} ELSE {})
    \cup (IF S.store.queue # <<>> \/ S.store.queueJson # "array" THEN {CONVERSION_QUEUE} ELSE {})

\* as FlowKeys, without the filter
FlowKeys_All(allKeys) == allKeys

\* storage.ts clearAllCachedFlows: allKeys.filter(key => key.startsWith(FLOW_CACHE_PREFIX)) (200)
FlowKeys(allKeys) == {key \in allKeys : StartsWith(key, FLOW_CACHE_PREFIX)}

\* reset: clearAllCachedFlows, getAllKeys completes (371, storage.ts 197-201)
clearAllCachedFlows_getAllKeys(t) ==
  /\ At(t, "getAllKeys")
  /\ \E ok \in StoreOutcomes :
       LET allKeys == getAllKeys(Cur) IN
       IF ok /\ FlowKeys(allKeys) # {}
         THEN Apply([Cur EXCEPT !.tasks[t].allKeys = allKeys, !.tasks[t].pc = "multiRemove"])
         ELSE Apply([Cur EXCEPT !.tasks[t].pc = "clearLocalData"])
  /\ UNCHANGED Env

\* reset: clearAllCachedFlows, multiRemove(flowKeys) completes (202-206)
clearAllCachedFlows_multiRemove(t) ==
  /\ At(t, "multiRemove")
  /\ \E ok \in StoreOutcomes :
       Apply([Cur EXCEPT !.store.keys = IF ok THEN @ \ FlowKeys(tasks[t].allKeys) ELSE @,
                         !.store.malformed = IF ok THEN @ \ FlowKeys(tasks[t].allKeys) ELSE @,
                         !.store.flows = IF ok
                                           THEN [slug \in Slugs |->
                                                   IF FlowKey(slug) \in FlowKeys(tasks[t].allKeys)
                                                     THEN NoFlowConfig ELSE @[slug]]
                                           ELSE @,
                         !.tasks[t].pc = "clearLocalData"])
  /\ UNCHANGED Env

\* reset: clearLocalData completes (372-376, storage.ts 256-262)
reset_clearLocalData(t) ==
  /\ At(t, "clearLocalData")
  /\ \E ok \in StoreOutcomes :
       Apply([Cur EXCEPT !.store.keys = IF ok THEN @ \ {LOCAL_DATA} ELSE @,
                         !.store.localData = IF ok THEN NoLocalData ELSE @,
                         !.store.malformed = IF ok THEN @ \ {LOCAL_DATA} ELSE @,
                         !.tasks[t].pc = "done"])
  /\ UNCHANGED Env

\* observation: what kind of answer the flow fetch of a task got
FlowResponseKind(response) ==
  IF response.isNull THEN "null"
  ELSE IF response.error # "" THEN "error"
  ELSE IF response.cached THEN "cached"
  ELSE IF response.versionId # 0 /\ response.html # "" THEN "content"
  ELSE "unexpected"

\* startFlow: getCachedFlow(slug) completes (450, storage.ts 153-165)
getCachedFlow(t) ==
  /\ At(t, "getCachedFlow")
  /\ \E ok \in StoreOutcomes :
       Apply([Cur EXCEPT !.tasks[t].cached = getCachedFlow_read(store, tasks[t].slug, ok) # NoFlowConfig,
                         !.tasks[t].cachedFlow = getCachedFlow_read(store, tasks[t].slug, ok),
                         !.tasks[t].pc = "fetchFlow"])
  /\ UNCHANGED Env

\* startFlow: fetchFlow completes (460-516); throws: whether the provider's
\* presentFlow raises when it is called
fetchFlow(t) ==
  /\ At(t, "fetchFlow")
  /\ \E response \in FlowResponses, throws \in BOOLEAN :
       LET S1 == [Cur EXCEPT !.tasks[t].response = FlowResponseKind(response),
                             !.tasks[t].responseError = response.error]
       IN IF tasks[t].kind = "pf"
            THEN Apply(prefetchFlow_afterFetch(S1, t, response))
            ELSE Apply(startFlow_afterFetch(S1, t, response, throws))
  /\ UNCHANGED Env

\* as setCachedFlow, without the write
setCachedFlow_NoWrite(t) ==
  /\ At(t, "setCachedFlow")
  /\ \E throws \in BOOLEAN : Apply(presentFlowToUser(Cur, t, tasks[t].flowConfig, throws))
  /\ UNCHANGED Env

\* startFlow: setCachedFlow completes, the flow is presented (509-534, storage.ts 170-182)
setCachedFlow(t) ==
  /\ At(t, "setCachedFlow")
  /\ \E ok \in StoreOutcomes, throws \in BOOLEAN :
       LET S1 == [Cur EXCEPT !.store.keys = IF ok THEN @ \cup {FlowKey(tasks[t].slug)} ELSE @,
                             !.store.malformed = IF ok THEN @ \ {FlowKey(tasks[t].slug)} ELSE @,
                             !.store.flows[tasks[t].slug] =
                                IF ok THEN [tasks[t].flowConfig EXCEPT !.cachedAt = now] ELSE @]
       IN IF tasks[t].kind = "pf"
            THEN Apply([S1 EXCEPT !.tasks[t].pc = "done"])
            ELSE Apply(presentFlowToUser(S1, t, tasks[t].flowConfig, throws))
  /\ UNCHANGED Env

\* the provider calls `resolve` of the presented flow (629-636)
flowResolved(t) ==
  /\ At(t, "presented")
  /\ \E result \in FlowOutcomes : Apply(startFlow_return(Cur, t, result))
  /\ UNCHANGED Env

\* ------------------------------------------- one remote operation (api.ts)
\* request, requestWithError and fetchFlow share one shape: an
\* AbortController, a timer that aborts it after `timeout`, `await fetch`,
\* clearTimeout, `await response.json()`, and a catch that clears the timer
\* and looks at error.name.  `net` is the operation in flight: the awaited
\* step (phase), the time elapsed since the call, the timer and the signal.

\* what the operation returns for a failure of kind errorType:
\* requestWithError { data: null, errorType }, request and fetchFlow null
Failure(op, errorType) == IF op = "requestWithError" THEN errorType ELSE "null"

\* as clearTimeout, the timer left armed
clearTimeout_Noop(timer) == timer

\* clearTimeout(timeoutId): an armed timer is cancelled, a fired one stays fired
clearTimeout(timer) == IF timer = "armed" THEN "cleared" ELSE timer

NetStep(n) ==
  /\ net' = n
  /\ Apply(Cur)
  /\ UNCHANGED <<faulty, epoch, scenario, answerAtRestart>>

\* the call: new AbortController(), setTimeout(() => controller.abort(), timeout), fetch(...)
request_call(op, timeout) ==
  /\ net.phase \in {"idle", "ended"}
  /\ NetStep([NoRequest EXCEPT !.op = op, !.phase = "fetch", !.timeout = timeout, !.timer = "armed"])

\* time passes while the operation is in flight or its timer is armed
tick ==
  /\ net.phase \in {"fetch", "json"} \/ net.timer = "armed"
  /\ net.elapsed < MaxClock
  /\ NetStep([net EXCEPT !.elapsed = @ + 1])

\* the timer callback, once `timeout` has elapsed: controller.abort()
timer_fire ==
  /\ net.timer = "armed"
  /\ net.elapsed >= net.timeout
  /\ NetStep([net EXCEPT !.timer = "fired", !.aborted = TRUE, !.lateAbort = net.responded])

\* the catch block: clearTimeout, isTimeout = error.name === 'AbortError'
request_catch(n, isTimeout) ==
  [n EXCEPT !.timer = clearTimeout(n.timer), !.phase = "ended", !.isTimeout = isTimeout,
            !.outcome = Failure(n.op, IF isTimeout THEN "timeout" ELSE "network")]

\* fetch resolves with a response: clearTimeout, then !response.ok or response.json()
fetch_response(ok) ==
  /\ net.phase = "fetch"
  /\ ~net.aborted
  /\ LET n == [net EXCEPT !.responded = TRUE, !.timer = clearTimeout(net.timer)] IN
     NetStep(IF ok THEN [n EXCEPT !.phase = "json"]
                   ELSE [n EXCEPT !.phase = "ended", !.outcome = Failure(n.op, "server")])

\* fetch rejects because the transport failed
fetch_error ==
  /\ net.phase = "fetch"
  /\ ~net.aborted
  /\ NetStep(request_catch(net, FALSE))

\* fetch rejects with AbortError because the signal was aborted
fetch_abort ==
  /\ net.phase = "fetch"
  /\ net.aborted
  /\ NetStep(request_catch(net, TRUE))

\* response.json() resolves, or rejects (SyntaxError; AbortError when the
\* signal was aborted while the body was read)
json_done(parsed) ==
  /\ net.phase = "json"
  /\ parsed => ~net.aborted
  /\ NetStep(IF parsed THEN [net EXCEPT !.phase = "ended", !.outcome = "data"]
                       ELSE request_catch(net, net.aborted))

\* ---------------------------------------- storage.ts called directly
\* Each action below is one whole function of storage.ts, called on its own
\* and awaited: readOk / writeOk are the outcomes of its AsyncStorage calls.
StorageCall(op, arg, st, value, readOk, writeOk) ==
  /\ Apply([Cur EXCEPT !.store = st,
                       !.ret = [op |-> op, arg |-> arg, value |-> value,
                                readOk |-> readOk, writeOk |-> writeOk, before |-> store]])
  /\ UNCHANGED Env

storage_getCachedResult ==
  \E ok \in StoreOutcomes :
    StorageCall("getCachedResult", "", store, getCachedResult_read(store, ok), ok, TRUE)

storage_setCachedResult(matched, attribution) ==
  \E ok \in StoreOutcomes :
    StorageCall("setCachedResult", "",
                IF ok THEN [store EXCEPT !.attribution = CachedRecord(matched, attribution, now),
                                         !.malformed = @ \ {ATTRIBUTION}]
                      ELSE store,
                <<>>, TRUE, ok)

storage_clearAttribution ==
  \E ok \in StoreOutcomes :
    StorageCall("clearAttribution", "",
                IF ok THEN [store EXCEPT !.attribution = NoRecord, !.installId = NoId,
                                         !.malformed = @ \ {ATTRIBUTION}]
                      ELSE store,
                <<>>, TRUE, ok)

storage_getConversionQueue ==
  \E ok \in StoreOutcomes :
    StorageCall("getConversionQueue", "", store, getConversionQueue_parse(store, ok), ok, TRUE)

\* the read, the push and the write; a value that cannot be pushed to
\* throws inside the try block and nothing is written
storage_queueConversion(event) ==
  \E readOk, writeOk \in StoreOutcomes :
    LET parsed == getConversionQueue_parse(store, readOk) IN
    /\ Len(parsed.value) < MaxQueue
    /\ IF ~parsed.isArray
         THEN StorageCall("queueConversion", "", store, <<>>, readOk, TRUE)
         ELSE StorageCall("queueConversion", "",
                          IF writeOk THEN [store EXCEPT !.queue = Push(parsed.value, event),
                                                        !.queueJson = "array"]
                                     ELSE store,
                          <<>>, readOk, writeOk)

storage_clearConversionQueue ==
  \E ok \in StoreOutcomes :
    StorageCall("clearConversionQueue", "",
                IF ok THEN [store EXCEPT !.queue = <<>>, !.queueJson = "array"] ELSE store,
                <<>>, TRUE, ok)

storage_getCachedFlow(slug) ==
  \E ok \in StoreOutcomes :
    StorageCall("getCachedFlow", slug, store, getCachedFlow_read(store, slug, ok), ok, TRUE)

storage_setCachedFlow(slug, flow) ==
  \E ok \in StoreOutcomes :
    StorageCall("setCachedFlow", slug,
                IF ok THEN [store EXCEPT !.keys = @ \cup {FlowKey(slug)},
                                         !.flows[slug] = [flow EXCEPT !.cachedAt = now],
                                         !.malformed = @ \ {FlowKey(slug)}]
                      ELSE store,
                <<>>, TRUE, ok)

storage_clearCachedFlow(slug) ==
  \E ok \in StoreOutcomes :
    StorageCall("clearCachedFlow", slug,
                IF ok THEN [store EXCEPT !.keys = @ \ {FlowKey(slug)},
                                         !.flows[slug] = NoFlowConfig,
                                         !.malformed = @ \ {FlowKey(slug)}]
                      ELSE store,
                <<>>, TRUE, ok)

\* getAllKeys, the prefix filter, multiRemove when some key is left
storage_clearAllCachedFlows ==
  \E readOk, writeOk \in StoreOutcomes :
    LET flowKeys == FlowKeys(getAllKeys(Cur)) IN
    IF readOk /\ flowKeys # {}
      THEN StorageCall("clearAllCachedFlows", "",
                       IF writeOk
                         THEN [store EXCEPT !.keys = @ \ flowKeys,
                                            !.flows = [slug \in Slugs |->
                                                         IF FlowKey(slug) \in flowKeys
                                                           THEN NoFlowConfig ELSE @[slug]],
                                            !.malformed = @ \ flowKeys]
                         ELSE store,
                       <<>>, readOk, writeOk)
      ELSE StorageCall("clearAllCachedFlows", "", store, <<>>, readOk, TRUE)

storage_getAllLocalData ==
  \E ok \in StoreOutcomes :
    StorageCall("getAllLocalData", "", store, getAllLocalData_read(store, ok), ok, TRUE)

\* getAllLocalData, data[key] = value, setItem
storage_setLocalData(key, value) ==
  \E readOk, writeOk \in StoreOutcomes :
    LET data == [getAllLocalData_read(store, readOk) EXCEPT ![key] = value] IN
    StorageCall("setLocalData", key,
                IF writeOk THEN [store EXCEPT !.keys = @ \cup {LOCAL_DATA},
                                              !.localData = data,
                                              !.malformed = @ \ {LOCAL_DATA}]
                           ELSE store,
                <<>>, readOk, writeOk)

storage_clearLocalData ==
  \E ok \in StoreOutcomes :
    StorageCall("clearLocalData", "",
                IF ok THEN [store EXCEPT !.keys = @ \ {LOCAL_DATA}, !.localData = NoLocalData,
                                         !.malformed = @ \ {LOCAL_DATA}]
                      ELSE store,
                <<>>, TRUE, ok)

\* ------------------------------------------------------ specifications
AttributionSteps(t) ==
  \/ getInstallId_getItem(t)
  \/ getInstallId_setItem(t)
  \/ getCachedResult(t)
  \/ getInstallReferrer(t)
  \/ findAttribution(t)
  \/ setCachedResult(t)
  \/ getConversionQueue(t)
  \/ reset_clearAttribution(t)
  \/ reset_clearConversionQueue(t)
  \/ clearAllCachedFlows_getAllKeys(t)
  \/ reset_clearLocalData(t)

ConversionSteps(t) ==
  \/ sendConversion(t)
  \/ sendAll(t)
  \/ clearConversionQueue(t)
  \/ queueConversion_get(t)
  \/ queueConversion_set(t)

Init == InitOver({FreshStore}, "attribution", BOOLEAN, 2)

Next ==
  \/ \E cfg \in InitConfigs : init(cfg)
  \/ \E enabled \in BOOLEAN : setEnabled(enabled)
  \/ getAttribution
  \/ reset
  \/ Restart
  \/ \E t \in Tasks : AttributionSteps(t) \/ sharedPromise(t)

Spec == Init /\ [][Next]_vars

\* The application awaits every call before it makes the next one.
InitSeq == InitOver({FreshStore, UnattributedStore}, "awaited", {FALSE}, 2)

NextSeq ==
  \/ \E cfg \in InitConfigs : init(cfg)
  \/ \E enabled \in BOOLEAN : setEnabled(enabled)
  \/ getAttribution
  \/ \E in \in ConversionInputs : trackConversion(in)
  \/ reset
  \/ Restart
  \/ \E t \in Tasks : AttributionSteps(t) \/ ConversionSteps(t) \/ clearAllCachedFlows_multiRemove(t)

SpecSeq == InitSeq /\ [][NextSeq]_vars

\* As SpecSeq, where every awaited operation of a task completes: AsyncStorage
\* calls settle and every request resolves, by the response or by its timeout.
SpecSeqFair ==
  InitSeq /\ [][NextSeq]_vars
    /\ \A t \in Tasks :
         WF_vars(AttributionSteps(t) \/ ConversionSteps(t) \/ clearAllCachedFlows_multiRemove(t))

\* Calls awaited one at a time over a store whose conversion queue is corrupt
\* and whose operations may fail.
InitCorrupt ==
  InitOver({CorruptStore(json) : json \in {"null", "object", "garbage"}}, "awaited", BOOLEAN, 2)

NextCorrupt ==
  \/ \E cfg \in InitConfigs : init(cfg)
  \/ \E enabled \in BOOLEAN : setEnabled(enabled)
  \/ getAttribution
  \/ \E in \in ConversionInputs : trackConversion(in)
  \/ reset
  \/ \E t \in Tasks : AttributionSteps(t) \/ ConversionSteps(t)

SpecCorrupt == InitCorrupt /\ [][NextCorrupt]_vars

\* As SpecSeq, with flows started.
FlowSteps(t) ==
  \/ getCachedFlow(t)
  \/ fetchFlow(t)
  \/ setCachedFlow(t)
  \/ flowResolved(t)

InitFlow == InitOver({FreshStore, UnattributedStore}, "flows", {FALSE}, 2)

NextFlow ==
  \/ \E cfg \in InitConfigs : init(cfg)
  \/ \E enabled \in BOOLEAN : setEnabled(enabled)
  \/ getAttribution
  \/ \E slug \in Slugs, mounted \in BOOLEAN : startFlow(slug, mounted)
  \/ \E slug \in Slugs : prefetchFlow(slug)
  \/ reset
  \/ \E t \in Tasks :
       AttributionSteps(t) \/ sendAll(t) \/ clearConversionQueue(t) \/ queueConversion_get(t)
         \/ queueConversion_set(t) \/ clearAllCachedFlows_multiRemove(t) \/ FlowSteps(t)

SpecFlow == InitFlow /\ [][NextFlow]_vars

\* The functions of storage.ts called directly, over stores that may fail
\* and may hold malformed JSON.
InitStorage == InitOver({FreshStore, UnattributedStore, MalformedStore}, "storage", BOOLEAN, 2)

NextStorage ==
  \/ storage_getCachedResult
  \/ \E record \in {ReturningStore.attribution, CachedRecord(FALSE, NoAttribution, 0)} :
       storage_setCachedResult(record.matched, record.attribution)
  \/ storage_clearAttribution
  \/ storage_getConversionQueue
  \/ \E event \in {QueuedPurchase} : storage_queueConversion(event)
  \/ storage_clearConversionQueue
  \/ \E slug \in Slugs : storage_getCachedFlow(slug)
  \/ \E slug \in Slugs, flow \in {FlowConfig(2, "<v2>")} :
       storage_setCachedFlow(slug, flow)
  \/ \E slug \in Slugs : storage_clearCachedFlow(slug)
  \/ storage_clearAllCachedFlows
  \/ storage_getAllLocalData
  \/ \E key \in DataKeys, value \in {"b"} : storage_setLocalData(key, value)
  \/ storage_clearLocalData

SpecStorage == InitStorage /\ [][NextStorage]_vars

\* One remote operation after another, with time passing; the event loop
\* runs a timer that is due and the continuation of an aborted fetch.
InitNet == InitOver({FreshStore}, "transport", {FALSE}, 2)

NextNet ==
  \/ \E op \in {"requestWithError", "request", "fetchFlow"}, timeout \in Timeouts : request_call(op, timeout)
  \/ tick
  \/ timer_fire
  \/ \E ok \in BOOLEAN : fetch_response(ok)
  \/ fetch_error
  \/ fetch_abort
  \/ \E parsed \in BOOLEAN : json_done(parsed)

SpecNetFair == InitNet /\ [][NextNet]_vars /\ WF_vars(timer_fire) /\ WF_vars(fetch_abort)

\* Attribution calls, reset() and restarts interleaved on a first launch.
InitId == InitOver({FreshStore}, "identity", {FALSE}, 1)

NextId ==
  \/ \E cfg \in InitConfigs : init(cfg)
  \/ getAttribution
  \/ reset
  \/ Restart
  \/ \E t \in Tasks : AttributionSteps(t) \/ sharedPromise(t)

SpecId == InitId /\ [][NextId]_vars

\* Attribution calls and setEnabled interleaved on a first launch, over a
\* store that does not fail.
InitOff == InitOver({FreshStore}, "disabling", {FALSE}, 2)

NextOff ==
  \/ \E cfg \in InitConfigs : init(cfg)
  \/ \E enabled \in BOOLEAN : setEnabled(enabled)
  \/ getAttribution
  \/ \E t \in Tasks :
        \/ getInstallId_getItem(t)
        \/ getInstallId_setItem(t)
        \/ getCachedResult(t)
        \/ getInstallReferrer(t)
        \/ findAttribution(t)
        \/ setCachedResult(t)
        \/ getConversionQueue(t)
        \/ sharedPromise(t)

SpecOff == InitOff /\ [][NextOff]_vars

\* Flows started by an application that does not wait for the flow started
\* before to be left, on a store that holds an install id, an attribution and
\* no queued conversion.
InitShow == InitOver({[ReturningStore EXCEPT !.queue = <<>>]}, "presenting", {FALSE}, 2)

ShowSteps(t) ==
  \/ getInstallId_getItem(t)
  \/ getCachedResult(t)
  \/ getConversionQueue(t)
  \/ FlowSteps(t)

NextShow ==
  \/ \E cfg \in InitConfigs : init(cfg)
  \/ \E slug \in Slugs, mounted \in BOOLEAN : startFlow(slug, mounted)
  \/ \E t \in Tasks : ShowSteps(t)

\* Every step of the SDK that can be taken is taken, and the user completes or
\* dismisses the flow that is displayed.
SpecShowFair == InitShow /\ [][NextShow]_vars /\ \A t \in Tasks : WF_vars(ShowSteps(t))

\* Conversions tracked while reset() runs, on a store that never fails and
\* holds an install id, an attribution and a queued conversion.
InitReset == InitOver({ReturningStore}, "resetting", {FALSE}, 2)

NextReset ==
  \/ \E cfg \in InitConfigs : init(cfg)
  \/ \E in \in ConversionInputs : trackConversion(in)
  \/ reset
  \/ \E t \in Tasks : AttributionSteps(t) \/ ConversionSteps(t)

SpecReset == InitReset /\ [][NextReset]_vars

\* Attribution lookups asked for with different timeouts, concurrently with
\* each other and with the lookup init starts, on a store that never fails.
InitTimeout == InitOver({FreshStore}, "timeouts", {FALSE}, 2)

NextTimeout ==
  \/ \E cfg \in InitConfigs : init(cfg)
  \/ \E timeout \in {NoTimeout, 1} : getAttribution_options(timeout)
  \/ \E t \in Tasks :
        \/ getInstallId_getItem(t)
        \/ getInstallId_setItem(t)
        \/ getCachedResult(t)
        \/ getInstallReferrer(t)
        \/ findAttribution(t)
        \/ setCachedResult(t)
        \/ getConversionQueue(t)
        \/ sharedPromise(t)

SpecTimeout == InitTimeout /\ [][NextTimeout]_vars

\* Conversions tracked and flushed concurrently, on a returning install.
InitConv == InitOver({ReturningStore}, "conversion", {FALSE}, 2)

NextConv ==
  \/ \E cfg \in InitConfigs : init(cfg)
  \/ \E enabled \in BOOLEAN : setEnabled(enabled)
  \/ \E in \in ConversionInputs : trackConversion(in)
  \/ \E t \in Tasks :
        \/ getInstallId_getItem(t)
        \/ getCachedResult(t)
        \/ getConversionQueue(t)
        \/ ConversionSteps(t)

SpecConv == InitConv /\ [][NextConv]_vars

\* ------------------------------------------------------------- claims

\* C1: N >= 1 getAttribution() calls started on a configured, enabled
\* coordinator with no cached result, before any of them has resolved, issue
\* exactly one /find request between them and all receive the same result.
C1_Deduplication ==
  LET M == {t \in Tasks : tasks[t].member} IN
  (clean /\ ~faulty /\ M # {} /\ \A t \in M : tasks[t].pc = "done")
    => /\ Cardinality({t \in M : tasks[t].issued}) = 1
       /\ \A t, u \in M : tasks[t].result = tasks[u].result

\* C2: once a getAttribution() has returned a definitive result, every later
\* getAttribution() call on the enabled instance, until reset(), returns at
\* once (no request, no durable read) a result equal to that first one.
\* Stated for a durable store that never fails.
C2_LaterCallsReturnFirstResult ==
  \A t \in Tasks :
    (~faulty /\ tasks[t].kind = "ga" /\ tasks[t].late # NoResult)
      => (tasks[t].pc = "done" /\ tasks[t].result = tasks[t].late)

\* C3: if the previous instance got a definitive server answer and the
\* durable store did not fail, a fresh instance over the same store issues no
\* /find request and its getAttribution() returns the equal result.
C3_FreshInstanceServesRecord ==
  (epoch >= 1 /\ ~faulty /\ ~resetSeen /\ answerAtRestart # NoResult)
    => /\ findCount = 0
       /\ \A t \in Tasks :
            (/\ tasks[t].kind \in {"ga", "init"}
             /\ tasks[t].pc = "done"
             /\ (Definitive(tasks[t].result) \/ TransportError(tasks[t].result)))
              => tasks[t].result = answerAtRestart

C3_Witness ==
  /\ epoch >= 1 /\ ~faulty /\ ~resetSeen
  /\ answerAtRestart.status = "matched"
  /\ \E t \in Tasks : tasks[t].kind = "ga" /\ tasks[t].pc = "done" /\ tasks[t].result = answerAtRestart

\* C4: a getAttribution() that ended in a network, timeout, server or
\* malformed-response error leaves the in-memory cache unset and the durable
\* record absent, and the getAttribution() that follows it immediately, on the
\* same instance or on a fresh one over the same store, issues a /find request.
C4_ErrorsAreRetried ==
  /\ TransportError(lastOutcome)
       => (~attributionChecked /\ cachedAttributionResult = NoResult /\ ~store.attribution.present)
  /\ \A t \in Tasks : (tasks[t].afterError /\ tasks[t].pc = "done") => tasks[t].issued

C4_Witness ==
  \E t \in Tasks :
    /\ tasks[t].afterError /\ tasks[t].pc = "done" /\ tasks[t].issued
    /\ tasks[t].result.status = "matched"
    /\ epoch = 1

\* C5: a queued conversion event that the server has accepted is never sent
\* again, also when several flushes overlap on slow durable-store operations.
C5_AcceptedEventNeverResent == resent = {}

\* C6: from the moment trackConversion has queued an event whose send failed,
\* the event is at every state in the durable queue or delivered to the server.
C6_QueuedEventNeverLost ==
  \A e \in queued : (\E k \in 1..Len(store.queue) : store.queue[k] = e) \/ e \in delivered

\* C7: trackConversion on a configured, enabled coordinator running alone:
\* when the immediate send succeeds the durable queue is unchanged; when it
\* fails exactly one event with the call's installId, name, value, timestamp
\* and flowSessionId is appended at the tail of the durable queue.
C7_TrackConversionQueueEffect ==
  \A t \in Tasks :
    (tasks[t].kind = "tc" /\ tasks[t].pc = "done" /\ tasks[t].sent # "none")
      => IF tasks[t].sent = "ok"
           THEN tasks[t].qEnd = tasks[t].q0
           ELSE /\ tasks[t].qEnd = tasks[t].q0 \o <<tasks[t].ev>>
                /\ tasks[t].ev.installId = tasks[t].installId
                /\ tasks[t].ev.installId # NoId
                /\ \E in \in ConversionInputs :
                     /\ tasks[t].ev.name = in.name
                     /\ tasks[t].ev.value = in.value
                     /\ tasks[t].ev.flowSessionId = in.flowSessionId

C7_Witness ==
  \E t \in Tasks :
    /\ tasks[t].kind = "tc" /\ tasks[t].pc = "done" /\ tasks[t].sent = "failed"
    /\ Len(tasks[t].q0) = 2
    /\ Len(tasks[t].qEnd) = 3
    /\ tasks[t].qEnd[3].name = "purchase"

\* C8: a flush running alone on a durable queue Q leaves exactly the
\* subsequence of Q whose sends failed, in Q's order (the empty queue when
\* every send succeeded); a flush of an empty queue issues no request and
\* writes nothing.
C8_FlushKeepsFailedInOrder ==
  /\ [](lastFlush.ran =>
          LET Q == lastFlush.q0
              R == lastFlush.results
              A == lastFlush.after
              F == {k \in 1..Len(Q) : ~R[k]}
          IN /\ Len(R) = Len(Q)
             /\ Len(A) = Cardinality(F)
             /\ \E f \in [1..Len(A) -> F] :
                  /\ \A j, k \in 1..Len(A) : j < k => f[j] < f[k]
                  /\ \A j \in 1..Len(A) : A[j] = Q[f[j]])
  /\ [][ \A t \in Tasks :
           (/\ tasks[t].pc = "getConversionQueue"
            /\ tasks'[t].pc # "getConversionQueue"
            /\ store.queue = <<>>)
             => (convSent' = 0 /\ store' = store) ]_vars

C8_Witness ==
  /\ lastFlush.ran
  /\ Len(lastFlush.q0) = 2
  /\ lastFlush.results = <<TRUE, FALSE>>
  /\ lastFlush.after = <<QueuedPurchase>>

\* C9: no /find request is issued while enabled is false; a getAttribution()
\* called while disabled returns error(sdk_disabled) at once and changes
\* nothing; one in progress when setEnabled(false) ran issues no request.
C9_NoFindWhileDisabled ==
  [][ /\ findCount' > 0 => (config.present /\ config.enabled)
      /\ \A t \in Tasks :
           (tasks[t].pc = "free" /\ tasks'[t].kind = "ga" /\ isConfigured /\ config.present /\ ~config.enabled)
             => /\ tasks'[t].pc = "done"
                /\ tasks'[t].result = ErrorResult("sdk_disabled", 0)
                /\ UNCHANGED <<config, isConfigured, attributionPromise, cachedAttributionResult,
                               attributionChecked, store>>
                /\ findCount' = 0 /\ convSent' = 0 ]_vars

C9_Witness ==
  \E t \in Tasks : tasks[t].fdone /\ ~tasks[t].issued /\ ~config.enabled

\* C10: while enabled is false no /conversion request is sent and no event
\* is appended to the durable queue, also by a trackConversion or a flush that
\* was suspended when setEnabled(false) ran.
C10_NoConversionWhileDisabled ==
  [][ (\/ convSent' > 0
       \/ \E k \in 1..Len(store'.queue) :
            \A j \in 1..Len(store.queue) : store.queue[j] # store'.queue[k])
        => (config.present /\ config.enabled) ]_vars

\* C14: when a reset() that runs with no other operation in progress
\* completes, the in-memory attribution cache and the in-flight marker are
\* unset and the durable store holds no attribution record, install id,
\* conversion queue, flow-cache entry or local-data blob; no step of the reset
\* changes a key outside these, the configuration or the enabled state.
C14_ResetClearsEverything ==
  [][ \A t \in Tasks :
        /\ (tasks'[t].kind = "reset" /\ tasks'[t] # tasks[t])
             => /\ config' = config
                /\ isConfigured' = isConfigured
                /\ {k \in store'.keys : k # LOCAL_DATA /\ ~StartsWith(k, FLOW_CACHE_PREFIX)}
                     = {k \in store.keys : k # LOCAL_DATA /\ ~StartsWith(k, FLOW_CACHE_PREFIX)}
        /\ (tasks[t].kind = "reset" /\ tasks[t].pc # "done" /\ tasks'[t].pc = "done")
             => /\ cachedAttributionResult' = NoResult
                /\ ~attributionChecked'
                /\ attributionPromise' = 0
                /\ store'.attribution = NoRecord
                /\ store'.installId = NoId
                /\ store'.queue = <<>>
                /\ \A k \in store'.keys : k # LOCAL_DATA /\ ~StartsWith(k, FLOW_CACHE_PREFIX) ]_vars

C14_Witness ==
  \E t \in Tasks :
    /\ tasks[t].kind = "reset" /\ tasks[t].pc = "done"
    /\ tasks[t].allKeys = {FlowKey("onboarding"), LOCAL_DATA, AppKey}
    /\ store = [FreshStore EXCEPT !.keys = {AppKey}]
    /\ isConfigured /\ config.present

\* C15: init, getAttribution, trackConversion and reset never reject, whatever
\* the store holds and whether its operations fail or not: no call of these
\* ends by throwing to its caller.
C15_NeverRejects ==
  \A t \in Tasks :
    tasks[t].kind \in {"init", "ga", "tc", "reset"} => tasks[t].pc # "rejected"

\* C16: startFlow never rejects: whatever is raised in its pipeline after
\* the precondition checks, an exception of the provider's presentFlow
\* included, it resolves (with error SERVER_ERROR).
C16_StartFlowNeverRejects ==
  \A t \in Tasks : tasks[t].kind = "sf" => tasks[t].pc # "rejected"

\* C17: after an init(config) call whose appId or appKey is empty the
\* coordinator is unconfigured, whatever its state before that call.
C17_InvalidInitUnconfigures ==
  [][ \A t \in Tasks :
        (tasks[t].pc = "free" /\ tasks'[t].kind = "init" /\ tasks'[t].pc = "done")
          => ~isConfigured' ]_vars

\* C18: at every moment at most one /find request of the instance is in
\* flight, over all interleavings of the calls.
C18_OneFindInFlight ==
  Cardinality({t \in Tasks : tasks[t].pc = "findAttribution"}) <= 1

\* C19: attributionChecked becomes true only in a step that received a
\* definitive /find response or read the durable record; never by an error
\* outcome or on a path that made no server request.
C19_DefinitiveOnlyAfterAnswer ==
  [][ (~attributionChecked /\ attributionChecked')
        => \E t \in Tasks :
             /\ tasks'[t] # tasks[t]
             /\ \/ tasks[t].pc = "setCachedResult" /\ tasks[t].issued
                \/ tasks[t].pc = "findAttribution" /\ tasks[t].issued /\ Definitive(tasks'[t].fres)
                \/ tasks[t].pc = "getCachedResult" /\ store.attribution.present ]_vars

\* C20: the durable attribution record is written only after a /find
\* response whose matched field is a boolean, never after a network, timeout,
\* server or malformed outcome, and every record carries an attribution
\* payload iff its matched field is true.
C20_RecordOnlyAfterBooleanMatched ==
  /\ [](store.attribution.present
          => (store.attribution.matched <=> store.attribution.attribution.present))
  /\ [][ (store'.attribution # store.attribution /\ store'.attribution.present)
          => \E t \in Tasks :
               /\ tasks[t].pc = "setCachedResult" /\ tasks'[t] # tasks[t]
               /\ tasks[t].issued
               /\ tasks[t].respMatched \in {"true", "false"}
               /\ store'.attribution.matched => tasks[t].respMatched = "true" ]_vars

C20_Witness ==
  /\ store.attribution.present /\ ~store.attribution.matched
  /\ \E t \in Tasks : tasks[t].issued /\ tasks[t].pc = "done" /\ tasks[t].result = NoMatchResult

\* C11: setEnabled(true) starts a flush: every event that is in the durable
\* queue at that moment is eventually attempted (one /conversion request per
\* event, each of them answered) and the events whose send succeeded are not
\* in the queue when the flush ends; setEnabled(false) starts no flush, sends
\* nothing and leaves the store as it is.
C11_SetEnabledFlushes ==
  /\ \A t \in Tasks :
       (tasks[t].kind = "fl" /\ tasks[t].pc = "getConversionQueue" /\ tasks[t].q0 # <<>>)
         ~> (/\ tasks[t].kind = "fl" /\ tasks[t].pc = "done"
             /\ tasks[t].q = tasks[t].q0
             /\ Len(tasks[t].results) = Len(tasks[t].q0)
             /\ \A k \in 1..Len(tasks[t].q0) :
                  tasks[t].results[k]
                    => \A j \in 1..Len(store.queue) : store.queue[j] # tasks[t].q0[k])
  /\ [][ /\ \A t \in Tasks :
              (tasks[t].kind = "fl" /\ tasks[t].pc = "getConversionQueue" /\ tasks'[t] # tasks[t])
                => (tasks[t].q0 # <<>> => convSent' = Len(tasks[t].q0))
         /\ \A t \in Tasks :
              (tasks[t].kind = "fl" /\ tasks[t].pc # "done" /\ tasks'[t].pc = "done")
                => \A k \in 1..Len(tasks'[t].q) :
                     tasks'[t].results[k]
                       => \A j \in 1..Len(store'.queue) : store'.queue[j] # tasks'[t].q[k]
         /\ (/\ config.present /\ config.enabled /\ ~config'.enabled
             /\ \A t \in Tasks : tasks'[t].kind # "init")
              => /\ \A t \in Tasks : tasks'[t].pc \in {"free", "done", "killed"}
                 /\ convSent' = 0
                 /\ store' = store ]_vars

C11_Witness ==
  \E t \in Tasks :
    /\ tasks[t].kind = "fl" /\ tasks[t].pc = "done"
    /\ tasks[t].q0 = <<QueuedSignup, QueuedPurchase>>
    /\ tasks[t].results = <<FALSE, TRUE>>
    /\ store.queue = <<QueuedSignup>>

\* C12: between resets, on a durable store that does not fail, every install
\* identifier getInstallId() has returned to a caller is the same value, also
\* for concurrent first accesses.
C12_StableInstallId ==
  ~resetSeen
    => \A t, u \in Tasks :
         (/\ tasks[t].installId # NoId
          /\ tasks[u].installId # NoId
          /\ tasks[t].pc \notin {"getInstallId_getItem", "getInstallId_setItem"}
          /\ tasks[u].pc \notin {"getInstallId_getItem", "getInstallId_setItem"})
           => tasks[t].installId = tasks[u].installId

\* C13: no getAttribution() started after reset() returns, caches or reads
\* from the durable record a payload obtained by a /find request that was
\* started before the reset, also when that request completes after it.
C13_NoPreResetPayloadAfterReset ==
  \A t \in Tasks : ~tasks[t].gotStale

\* C21: a startFlow(slug) whose fetch is answered cached:true while a cached
\* version V exists hands V, as stored, to the gateway and leaves the flow
\* cache as it was; one whose fetch is answered with a versionId and html has
\* that content stored at the slug's cache entry and handed to the gateway.
C21_CachedOrFreshContent ==
  [][ \A t \in Tasks :
        (/\ tasks'[t].kind = "sf"
         /\ tasks[t].pc \notin {"presented", "rejected"}
         /\ tasks'[t].pc \in {"presented", "rejected"})
          => /\ (tasks'[t].response = "cached")
                  => /\ tasks'[t].cached
                     /\ tasks'[t].handed = tasks'[t].flows0[2][tasks'[t].slug]
                     /\ tasks'[t].handed.html # ""
                     /\ <<store'.keys, store'.flows>> = tasks'[t].flows0
             /\ (tasks'[t].response = "content")
                  => /\ tasks'[t].handed = FlowConfig(2, "<v2>")
                     /\ FlowKey(tasks'[t].slug) \in store'.keys
                     /\ store'.flows[tasks'[t].slug].versionId = 2
                     /\ store'.flows[tasks'[t].slug].html = "<v2>" ]_vars

C21_Witness ==
  \E t \in Tasks :
    /\ tasks[t].kind = "sf" /\ tasks[t].pc = "presented"
    /\ tasks[t].response = "content"
    /\ tasks[t].flows0[2][tasks[t].slug].versionId = 1
    /\ store.flows[tasks[t].slug].versionId = 2

\* C22: when the flow fetch yields no response, a startFlow whose slug has a
\* cached version hands that cached version to the gateway, and one whose
\* slug has none resolves with NETWORK_ERROR and hands nothing.
C22_NoResponseFallback ==
  [][ \A t \in Tasks :
        (/\ tasks[t].kind = "sf"
         /\ tasks[t].pc = "fetchFlow" /\ tasks'[t].pc # "fetchFlow" /\ tasks'[t].response = "null")
          => /\ store' = store
             /\ IF FlowKey(tasks[t].slug) \in store.keys
                  THEN /\ tasks'[t].pc \in {"presented", "rejected"}
                       /\ tasks'[t].handed = store.flows[tasks[t].slug]
                       /\ tasks'[t].handed.html # ""
                  ELSE /\ tasks'[t].pc = "done"
                       /\ tasks'[t].flow = FlowError("NETWORK_ERROR")
                       /\ tasks'[t].handed = NoFlowConfig ]_vars

C22_Witness ==
  \E t \in Tasks :
    /\ tasks[t].kind = "sf" /\ tasks[t].pc = "presented"
    /\ tasks[t].response = "null"
    /\ tasks[t].handed = [versionId |-> 1, html |-> "<v1>", cachedAt |-> 0]

\* C23: when the flow fetch response carries an error code, startFlow resolves
\* with exactly that code, hands nothing to the gateway and leaves the flow
\* cache (and the rest of the store) unchanged, with or without a cached
\* version for the slug.
C23_ErrorCodeVerbatim ==
  [][ \A t \in Tasks :
        (/\ tasks[t].kind = "sf"
         /\ tasks[t].pc = "fetchFlow" /\ tasks'[t].pc # "fetchFlow" /\ tasks'[t].response = "error")
          => /\ tasks'[t].pc = "done"
             /\ tasks'[t].flow = FlowError(tasks'[t].responseError)
             /\ tasks'[t].responseError \in {"NOT_FOUND", "PLAN_REQUIRED"}
             /\ tasks'[t].handed = NoFlowConfig
             /\ store' = store
             /\ <<store'.keys, store'.flows>> = tasks'[t].flows0 ]_vars

C23_Witness ==
  \E t \in Tasks :
    /\ tasks[t].kind = "sf" /\ tasks[t].pc = "done"
    /\ tasks[t].cached
    /\ tasks[t].flow = FlowError("PLAN_REQUIRED")

\* C24: a startFlow called while the coordinator is not configured or is
\* disabled resolves at once with SDK_NOT_CONFIGURED, and one called while no
\* provider is mounted with PROVIDER_NOT_MOUNTED; such a call issues no
\* request, touches neither the store nor the in-memory state and hands
\* nothing to the gateway.
C24_StartFlowPreconditions ==
  [][ \A t \in Tasks :
        (tasks[t].pc = "free" /\ tasks'[t].kind = "sf")
          => LET unconfigured == ~isConfigured \/ ~config.present
                 disabled == config.present /\ ~config.enabled
             IN /\ (unconfigured \/ disabled) => tasks'[t].flow = FlowError("SDK_NOT_CONFIGURED")
                /\ (~unconfigured /\ ~disabled /\ ~tasks'[t].mounted)
                     => tasks'[t].flow = FlowError("PROVIDER_NOT_MOUNTED")
                /\ (unconfigured \/ disabled \/ ~tasks'[t].mounted)
                     => /\ tasks'[t].pc = "done"
                        /\ tasks'[t].handed = NoFlowConfig
                        /\ findCount' = 0 /\ convSent' = 0
                        /\ \A u \in Tasks : tasks'[u].pc \in {"free", "done", "rejected", "killed"}
                        /\ UNCHANGED <<config, isConfigured, attributionPromise,
                                       cachedAttributionResult, attributionChecked, store>> ]_vars

C24_Witness ==
  \E t \in Tasks :
    /\ tasks[t].kind = "sf" /\ tasks[t].pc = "done"
    /\ isConfigured /\ config.present /\ config.enabled
    /\ ~tasks[t].mounted
    /\ tasks[t].flow = FlowError("PROVIDER_NOT_MOUNTED")

\* C25: while the configuration given to init has autoAttribute = false and
\* the application has not called getAttribution() since that init, no /find
\* request is issued.
C25_NoFindUntilExplicitCall ==
  [][ findCount' > 0 => (config.autoAttribute \/ explicit') ]_vars

\* C26: init() with automatic attribution has resolved, with the install id
\* obtained and the queue flush behind it, whenever its background lookup is
\* waiting (so it resolves even if /find never answers); a definitive result
\* of the background lookup is kept in memory, and a getAttribution() called
\* while a definitive result is in memory returns it with no request.
C26_InitDoesNotWaitForLookup ==
  /\ [](\A t \in Tasks :
          (/\ tasks[t].kind = "init"
           /\ \/ tasks[t].pc \in {"getCachedResult", "sharedPromise", "getInstallReferrer",
                                  "findAttribution", "setCachedResult"}
              \/ tasks[t].pc = "getInstallId_getItem" /\ tasks[t].ctx = "fa")
            => (tasks[t].initResolved /\ tasks[t].installId # NoId))
  /\ [][ \A t \in Tasks :
          /\ (~tasks[t].initResolved /\ tasks'[t].initResolved)
               => /\ tasks'[t].installId # NoId
                  /\ tasks[t].pc \in {"getInstallId_getItem", "getInstallId_setItem", "getConversionQueue",
                                     "clearConversionQueue", "queueConversion_get", "queueConversion_set"}
          /\ (/\ tasks[t].kind = "init" /\ ~tasks[t].fdone /\ tasks'[t].fdone
              /\ Definitive(tasks'[t].fres))
               => /\ attributionChecked'
                  /\ cachedAttributionResult' = tasks'[t].fres
                  /\ tasks'[t].pc = "done"
          /\ (/\ tasks[t].pc = "free" /\ tasks'[t].kind = "ga"
              /\ attributionChecked /\ isConfigured /\ config.present /\ config.enabled)
               => /\ tasks'[t].pc = "done"
                  /\ tasks'[t].result = cachedAttributionResult
                  /\ findCount' = 0 ]_vars

C26_Witness ==
  \E t \in Tasks :
    /\ tasks[t].kind = "init" /\ tasks[t].initResolved
    /\ tasks[t].pc = "findAttribution"
    /\ \E u \in Tasks : tasks[u].kind = "ga" /\ tasks[u].pc = "sharedPromise" /\ tasks[u].waitOn = t

\* C27: clearAllCachedFlows removes every durable key under the flow-cache
\* prefix (once its getAllKeys and its multiRemove succeed) and never a key
\* outside it, leaving the attribution record, the install id, the queue and
\* the local data as they were; setCachedFlow(slug) and clearCachedFlow(slug)
\* leave the key and the cached entry of every other slug as they were.
C27_FlowCacheFrame ==
  [][ /\ ret'.op = "clearAllCachedFlows"
           => LET before == getAllKeys([store |-> store])
                  after == getAllKeys([store |-> store'])
              IN /\ after \subseteq before
                 /\ \A key \in before \ after : key.prefix = FLOW_CACHE_PREFIX
                 /\ (ret'.readOk /\ ret'.writeOk)
                      => \A key \in after : key.prefix # FLOW_CACHE_PREFIX
                 /\ store'.attribution = store.attribution
                 /\ store'.installId = store.installId
                 /\ store'.queue = store.queue
                 /\ store'.queueJson = store.queueJson
                 /\ store'.localData = store.localData
      /\ ret'.op \in {"setCachedFlow", "clearCachedFlow"}
           => \A other \in Slugs \ {ret'.arg} :
                /\ (FlowKey(other) \in store'.keys) = (FlowKey(other) \in store.keys)
                /\ (FlowKey(other) \in store'.malformed) = (FlowKey(other) \in store.malformed)
                /\ store'.flows[other] = store.flows[other]
                /\ getCachedFlow_read(store', other, TRUE) = getCachedFlow_read(store, other, TRUE) ]_vars

\* both slugs cached beside local data and a key of the application, then
\* cleared by one clearAllCachedFlows; a slug's entry replaced while the
\* other slug is cached
C27_Witness ==
  /\ ret.op = "clearAllCachedFlows" /\ ret.readOk /\ ret.writeOk
  /\ ret.before.keys = {FlowKey("onboarding"), FlowKey("paywall"), LOCAL_DATA, AppKey}
  /\ ret.before.flows["paywall"].versionId = 2
  /\ store.keys = {LOCAL_DATA, AppKey}

\* C28: under a failing store or malformed JSON every accessor of storage.ts
\* returns its safe default (null for the attribution record and for a cached
\* flow, [] for the conversion queue, {} for the local data), and a writer
\* whose write failed leaves the store as it found it.
C28_SafeDefaults ==
  /\ (ret.op = "getCachedResult" /\ (~ret.readOk \/ ATTRIBUTION \in ret.before.malformed))
       => ret.value = NoRecord
  /\ (ret.op = "getCachedFlow" /\ (~ret.readOk \/ FlowKey(ret.arg) \in ret.before.malformed))
       => ret.value = NoFlowConfig
  /\ (ret.op = "getConversionQueue" /\ (~ret.readOk \/ ret.before.queueJson = "garbage"))
       => (ret.value.isArray /\ ret.value.value = <<>>)
  /\ (ret.op = "getAllLocalData" /\ (~ret.readOk \/ LOCAL_DATA \in ret.before.malformed))
       => ret.value = NoLocalData
  /\ (/\ ret.op \in {"setCachedResult", "clearAttribution", "queueConversion", "clearConversionQueue",
                      "setCachedFlow", "clearCachedFlow", "clearAllCachedFlows", "setLocalData",
                      "clearLocalData"}
      /\ ~ret.writeOk)
       => store = ret.before

\* a read of the local data fails over a store that holds local data
C28_Witness ==
  /\ ret.op = "getAllLocalData" /\ ~ret.readOk
  /\ ret.before.localData["name"] = "a" /\ LOCAL_DATA \notin ret.before.malformed
  /\ ret.value = NoLocalData

C30_InitKeepsDisabled ==
  [][ \A t \in Tasks :
        (/\ optedOut /\ config.present /\ ~config.enabled
         /\ tasks[t].kind # "init" /\ tasks'[t].kind = "init"
         /\ tasks'[t].cfgEnabled = "unset")
          => ~config'.enabled ]_vars

\* C31: at every point of a flush after its sends have ended, the durable
\* queue holds every event of the flushed queue whose send did not succeed.
C31_FlushKeepsUnsentEvents ==
  \A t \in Tasks :
    (/\ tasks[t].kind \in {"init", "fl"}
     /\ tasks[t].pc \in {"clearConversionQueue", "queueConversion_get", "queueConversion_set"})
      => \A k \in 1..Len(tasks[t].q) :
           ~tasks[t].results[k]
             => \E j \in 1..Len(store.queue) : store.queue[j] = tasks[t].q[k]

\* C32: when a trackConversion whose send failed writes its event to the
\* durable queue, the queue it leaves holds its event and the event of every
\* other finished trackConversion whose event was queued and still in the
\* queue, in the order the calls were made.
C32_QueuedInCallOrder ==
  [][ \A t, u \in Tasks :
        (/\ tasks[t].kind = "tc" /\ tasks[t].pc = "queueConversion_set" /\ tasks'[t].pc = "done"
         /\ tasks[u].kind = "tc" /\ tasks[u].pc = "done" /\ u # t
         /\ tasks[u].ev \in queued
         /\ \E k \in 1..Len(store.queue) : store.queue[k] = tasks[u].ev)
          => \E i, j \in 1..Len(store'.queue) :
               /\ store'.queue[i] = tasks[u].ev
               /\ store'.queue[j] = tasks[t].ev
               /\ (i < j) = (tasks[u].callNo < tasks[t].callNo) ]_vars

\* C33: a /find request that was in flight when setEnabled(false) ran is not
\* abandoned; when its answer is definitive the result is written to the
\* durable record and to the in-memory cache, its caller returns it, and every
\* getAttribution that was handed its promise returns it too.
C33_InFlightLookupCompletesWhenDisabled ==
  [][ \A t \in Tasks :
        /\ (tasks[t].offInFlight /\ tasks[t].pc = "findAttribution")
             => tasks'[t].pc \in {"findAttribution", "setCachedResult", "done"}
        /\ (tasks[t].offInFlight /\ tasks[t].pc = "setCachedResult" /\ tasks'[t].pc # "setCachedResult")
             => /\ Definitive(tasks[t].fres)
                /\ store'.attribution
                     = CachedRecord(tasks[t].fres.status = "matched", tasks[t].fres.attribution, now)
                /\ attributionChecked'
                /\ cachedAttributionResult' = tasks[t].fres
                /\ tasks'[t].pc = "done"
                /\ tasks[t].kind = "ga" => tasks'[t].result = tasks[t].fres
        /\ (/\ tasks[t].pc = "sharedPromise" /\ tasks'[t].pc = "done"
            /\ tasks[tasks[t].waitOn].offInFlight)
             => tasks'[t].result = tasks[tasks[t].waitOn].fres ]_vars

\* disabled, with the matched answer of the request that was in flight
\* returned to its caller and to a caller that awaited the same promise
C33_Witness ==
  /\ config.present /\ ~config.enabled
  /\ \E t, u \in Tasks :
       /\ tasks[t].offInFlight /\ tasks[t].kind = "ga" /\ tasks[t].pc = "done"
       /\ tasks[t].result.status = "matched"
       /\ cachedAttributionResult = tasks[t].result
       /\ store.attribution.present /\ store.attribution.matched
       /\ tasks[u].kind = "ga" /\ tasks[u].pc = "done" /\ tasks[u].waitOn = t
       /\ tasks[u].result = tasks[t].result

\* C34: the step in which a lookup created by getAttribution finishes, with
\* whatever result, sets attributionPromise to null; attributionPromise never
\* refers to a finished lookup, no getAttribution is handed the promise of a
\* finished lookup, and after a lookup that ended in an error the coordinator
\* is left without a cached result and without an in-flight marker.
C34_MarkerClearedWhenLookupEnds ==
  /\ [](attributionPromise # 0
          => (~tasks[attributionPromise].fdone /\ InGetAttribution(Cur, attributionPromise)))
  /\ [][ \A t \in Tasks :
          /\ (~tasks[t].fdone /\ tasks'[t].fdone) => attributionPromise' = 0
          /\ (tasks[t].pc # "sharedPromise" /\ tasks'[t].pc = "sharedPromise")
               => (tasks'[t].waitOn # 0 /\ ~tasks'[tasks'[t].waitOn].fdone)
          /\ (~tasks[t].fdone /\ tasks'[t].fdone /\ tasks'[t].fres.status = "error")
               => (attributionChecked' = attributionChecked
                   /\ cachedAttributionResult' = cachedAttributionResult) ]_vars

\* a lookup ended in an error and, with no reset or restart in between, a
\* later getAttribution has started a new lookup whose request is in flight
C34_Witness ==
  /\ ~resetSeen /\ epoch = 0
  /\ \E t, u \in Tasks :
       /\ tasks[t].fdone /\ tasks[t].issued /\ tasks[t].fres.status = "error"
       /\ tasks[u].issued /\ tasks[u].pc = "findAttribution" /\ attributionPromise = u

\* C35: prefetchFlow(slug) never hands anything to the provider; called on an
\* unconfigured or disabled coordinator it returns at once; in every step of
\* it the only durable state that changes is the cache entry of slug, which
\* is written exactly when startFlow would write it for the same response and
\* cache, and nothing in memory changes and no /find or /conversion request
\* is issued.
C35_PrefetchOnlyFillsFlowCache ==
  /\ [](\A t \in Tasks :
          tasks[t].kind = "pf" => (tasks[t].pc \notin {"presented", "rejected"}
                                   /\ tasks[t].handed = NoFlowConfig))
  /\ [][ \A t \in Tasks :
          /\ (tasks[t].pc = "free" /\ tasks'[t].kind = "pf" /\ ~(isConfigured /\ Enabled(Cur)))
               => (tasks'[t].pc = "done" /\ store' = store)
          /\ (tasks'[t].kind = "pf" /\ tasks'[t] # tasks[t] /\ tasks[t].pc # "done")
               => /\ store'.installId = store.installId
                  /\ store'.attribution = store.attribution
                  /\ store'.queue = store.queue
                  /\ store'.queueJson = store.queueJson
                  /\ store'.localData = store.localData
                  /\ \A other \in Slugs \ {tasks'[t].slug} :
                       /\ store'.flows[other] = store.flows[other]
                       /\ (FlowKey(other) \in store'.keys) = (FlowKey(other) \in store.keys)
                  /\ config' = config /\ isConfigured' = isConfigured
                  /\ attributionPromise' = attributionPromise
                  /\ attributionChecked' = attributionChecked
                  /\ cachedAttributionResult' = cachedAttributionResult
                  /\ findCount' = 0 /\ convSent' = 0
          /\ (tasks[t].kind = "pf" /\ tasks[t].pc = "fetchFlow" /\ tasks'[t].pc # "fetchFlow")
               => \E response \in FlowResponses :
                    LET asStartFlow == startFlow_afterFetch(Cur, t, response, FALSE).tasks[t] IN
                    /\ FlowResponseKind(response) = tasks'[t].response
                    /\ (tasks'[t].pc = "setCachedFlow") = (asStartFlow.pc = "setCachedFlow")
                    /\ tasks'[t].flowConfig = asStartFlow.flowConfig ]_vars

\* C36: the error a getAttribution() returns names the outcome of its /find
\* request: network for a failed transport, timeout for an elapsed timeout,
\* server with the HTTP status for a non-2xx response, unknown for a 2xx
\* response whose body is malformed or has no boolean `matched`.
C36_ErrorCauseMatchesOutcome ==
  \A t \in Tasks :
    (tasks[t].kind = "ga" /\ tasks[t].pc = "done" /\ tasks[t].issued /\ tasks[t].answer.kind # "none")
      => LET a == tasks[t].answer IN
         /\ a.kind = "network" => tasks[t].result = ErrorResult("network", 0)
         /\ a.kind = "timeout" => tasks[t].result = ErrorResult("timeout", 0)
         /\ a.kind = "server" => tasks[t].result = ErrorResult("server", a.http)
         /\ a.kind = "badjson" => tasks[t].result = ErrorResult("unknown", 0)
         /\ (a.kind = "data" /\ a.matched \notin {"true", "false"})
              => tasks[t].result = ErrorResult("unknown", 0)

\* C37: every startFlow call whose request was handed to the presentation
\* gateway resolves once the user completes or dismisses its flow, also when
\* a second startFlow presents while the first flow is displayed.
C37_HandedCallResolves ==
  \A t \in Tasks :
    (tasks[t].kind = "sf" /\ tasks[t].pc = "presented") ~> (tasks[t].pc = "done")

\* C38: once a reset() has completed, no conversion event carrying the
\* install identifier that was stored when that reset() was called is sent to
\* the server or appended to the durable queue, also by a trackConversion or
\* a flush that was in progress when reset() was called.
C38_NoPreResetIdAfterReset ==
  [][ \A r \in Tasks :
        (tasks[r].kind = "reset" /\ tasks[r].pc = "done" /\ tasks[r].installId # NoId)
          => /\ \A t \in Tasks :
                  (tasks[t].pc # "sendConversion" /\ tasks'[t].pc = "sendConversion")
                    => tasks'[t].ev.installId # tasks[r].installId
             /\ \A t \in Tasks :
                  (tasks[t].pc # "sendAll" /\ tasks'[t].pc = "sendAll")
                    => \A k \in 1..Len(tasks'[t].q) : tasks'[t].q[k].installId # tasks[r].installId
             /\ \A k \in 1..Len(store'.queue) :
                  store'.queue[k].installId = tasks[r].installId
                    => \E j \in 1..Len(store.queue) : store.queue[j] = store'.queue[k] ]_vars

\* C39: a queueConversion whose read of the durable queue fails destroys no
\* queued conversion: every event that was in the durable queue before the
\* call is in it after the call.
C39_ReadFailureKeepsQueue ==
  (ret.op = "queueConversion" /\ ~ret.readOk /\ ret.before.queueJson = "array")
    => \A k \in 1..Len(ret.before.queue) :
         \E j \in 1..Len(store.queue) : store.queue[j] = ret.before.queue[k]

\* C40: the timeout given to getAttribution({timeout}) governs the lookup the
\* call waits on: a call that awaits a /find request in flight, its own or
\* the one behind the shared promise, awaits a request issued with the
\* timeout of that call (the default when it gave none).
C40_AwaitsOwnTimeout ==
  \A t \in Tasks :
    LET own == IF tasks[t].options = NoTimeout THEN DEFAULT_TIMEOUT ELSE tasks[t].options IN
    /\ (tasks[t].kind = "ga" /\ tasks[t].pc = "findAttribution") => tasks[t].timeout = own
    /\ (/\ tasks[t].kind = "ga" /\ tasks[t].pc = "sharedPromise"
        /\ tasks[tasks[t].waitOn].pc = "findAttribution")
         => tasks[tasks[t].waitOn].timeout = own

====
